---- MODULE Spec2Model ----
(***************************************************************************)
(* Verification model of the pyuvm matrix-determinant testbench            *)
(* (Blinduzzi/md_pyuvm_tb).                                                *)
(*                                                                         *)
(* Part 1: the scoreboard (scoreboard.py) and its golden model             *)
(*         (matrix_det_items.py, matrix_det_types.py).                     *)
(* Part 2: the input-side bus protocol: driver main loop, drive task,      *)
(*         reset watcher, input monitor and sequencer hand-shake           *)
(*         (input_agent.py, matrix_sequence.py, test_matrix_det.py).       *)
(*                                                                         *)
(* Matrices are 3x3 tuples of rows, indexed 1..3 (the code indexes 0..2);  *)
(* the row-major element number idx in 0..8 is the code's (i, j) with      *)
(* i = idx \div 3 and j = idx % 3.                                         *)
(***************************************************************************)
EXTENDS Integers, Sequences, FiniteSets, TLC

VARIABLES
    \* ---- scoreboard (scoreboard.py) ----
    input_fifo,      \* items published by the input monitor, not yet drained
    output_fifo,     \* items published by the output monitor, not yet drained
    expected_queue,  \* MatrixScoreboard.expected_queue
    sb_pc,           \* position of check_phase: "run", "inputs", "outputs", "done"; "calls": none
    sb_log,          \* logger.error / logger.warning calls of the scoreboard, in order
    in_hist,         \* history: the input items drained so far, in order
    exp_hist,        \* history: the expected items appended so far, in order
    out_hist,        \* history: the output items drained so far, in order
    cmp_hist,        \* history: the [expected, actual] pairs compared so far, in order
    \* ---- bus signals (cocotb.top) ----
    rst_n,           \* dut.rst_n
    mat_valid,       \* dut.mat_valid, all writes so far applied
    mat_in,          \* dut.mat_in, all writes so far applied
    dut_req,         \* dut.mat_request as the DUT drives it after the latest clock edge
    mat_request,     \* dut.mat_request as read by the tasks woken at the latest clock edge
    valid_s,         \* dut.mat_valid as read by the tasks woken at the latest clock edge
    in_s,            \* dut.mat_in as read by the tasks woken at the latest clock edge
    ready,           \* tasks whose trigger fired in this time step and that have not run yet
    pend,            \* edge of rst_n of this time step whose callback has not come yet
    \* ---- MatrixDriver ----
    idle_data,       \* MatrixDriver.idle_data
    drv_pc,          \* await at which main_drive_loop is suspended
    has_init_reset,  \* MatrixDriver.has_init_reset
    finished_item,   \* MatrixDriver.finished_item
    drv_timer,       \* clock periods left of the Timer(100 ns) of the error handler
    drv_item,        \* the item handed to drive_matrix
    dt_pc,           \* await at which the drive task is suspended ("none": no task yet)
    dt_idx,          \* row-major number of the element drive_matrix is working on
    dt_dcnt,         \* iterations of the pre-element delay loop started
    dt_result,       \* how the drive task ended: "none", "ok", "kill"
    \* ---- sequence and sequencer ----
    seq_pc,          \* the sequence body: "idle", "start_item", "finish_item"
    seq_item,        \* the item of the pending start_item / finish_item
    sqr_busy,        \* the sequencer holds an item for which item_done is outstanding
    sent,            \* number of items the sequence has submitted
    \* ---- MatrixMonitor ----
    mon_pc,          \* await at which monitor_valid_item is suspended
    mon_has_init_reset, \* MatrixMonitor.has_init_reset
    mon_idx,         \* number of elements captured into collected_valid_item
    mon_pre_delay,   \* local pre_delay of monitor_valid_item
    mon_item,        \* collected_valid_item
    \* ---- history ----
    resets,          \* number of reset assertions so far
    done_log,        \* numbers of the items for which item_done was called, in order
    aborted,         \* numbers of the items whose drive was cancelled by a reset
    abort_pending,   \* a drive was cancelled and get_next_item was not called since
    edges_since_release, \* clock edges since rst_n last rose, counted to SettleEdges + 1
    pres,            \* the element presented on the bus and not yet accepted, or NoPres
    stalls,          \* clock edges at which a presented element was not acknowledged
    mon_rst_hit,     \* reset was asserted while collected_valid_item was partly filled
    mixed_pub,       \* an item with mon_rst_hit set has been published
    pres_log,        \* the presentations of the current drive task, in order
    mon_miss,        \* clock edges the monitor sampled, since it began to wait for
                     \* its current element, at which valid and request were not both 1
    low_edges,       \* clock edges with mat_valid low and the idle pattern on mat_in
                     \* since drive_matrix came to its current element, up to MaxIdleCount
    \* ---- CoverageCollector (coverage_collector.py) ----
    cov_input_fifo,  \* CoverageCollector.input_fifo
    cov_output_fifo, \* CoverageCollector.output_fifo
    cov_pc,          \* position of report_phase: "run", "inputs", "outputs", "done"
    matrix_value_bins,      \* dictionary, keys created on first use
    determinant_value_bins, \* dictionary, keys created on first use
    overflow_bins,
    delay_bins,
    matrix_type_bins,
    cov_in_hist,     \* history: the input items collected so far, in order
    cov_type_hist,   \* history: the labels _classify_matrix returned, in order
    cov_out_hist,    \* history: the output items collected so far, in order
    cov_writes,      \* history: number of calls of CoverageCollector.write
    \* ---- DeterminantMonitor (output_agent.py) and the DUT's outputs ----
    det_valid_s,     \* dut.det_valid as read by the tasks woken at the latest clock edge
    det_s,           \* dut.det as read by the tasks woken at the latest clock edge
    ovf_s,           \* dut.overflow as read by the tasks woken at the latest clock edge
    omon_pc,         \* await at which the output monitor_valid_item is suspended
    omon_has_init_reset, \* DeterminantMonitor.has_init_reset
    omon_pre_delay,  \* local pre_delay of the output monitor_valid_item
    period_log,      \* history: det and overflow at the first sampled edge of each
                     \* period of det_valid high, in order
    \* ---- the driver's bus handle ----
    dut_bound,       \* MatrixDriver.dut is not None
    drv_errors,      \* the logger.error calls of the driver, by the method that made them
    \* ---- the DUT between its two sides (kept while the output monitor runs) ----
    dut_acc,         \* elements the DUT has accepted of the matrix it is receiving
    owed,            \* matrices received in full whose result is still to come
    tx_ages,         \* history: for each transaction the driver began and whose
                     \* result is still to come, the clock edges since it began
    res_log          \* history: for each period of det_valid high, the clock edges
                     \* from the begin of its transaction to its first edge

sb_vars == <<input_fifo, output_fifo, expected_queue, sb_pc, sb_log,
             in_hist, exp_hist, out_hist, cmp_hist>>

sb_rest == <<output_fifo, expected_queue, sb_pc, sb_log,
             in_hist, exp_hist, out_hist, cmp_hist>>

sig_vars == <<rst_n, mat_valid, mat_in, dut_req, mat_request, valid_s, in_s>>
drv_vars == <<idle_data, drv_pc, has_init_reset, finished_item, drv_timer, drv_item>>
dt_vars == <<dt_pc, dt_idx, dt_dcnt, dt_result>>
seq_vars == <<seq_pc, seq_item, sqr_busy, sent>>
mon_vars == <<mon_pc, mon_has_init_reset, mon_idx, mon_pre_delay, mon_item>>
hist_vars == <<resets, done_log, aborted, abort_pending, edges_since_release,
               pres, stalls, mon_rst_hit, mixed_pub, pres_log, low_edges, mon_miss>>

bus_vars == <<sig_vars, ready, pend, drv_vars, dt_vars, seq_vars, mon_vars, hist_vars>>

cov_rest == <<cov_output_fifo, cov_pc, matrix_value_bins, determinant_value_bins,
              overflow_bins, delay_bins, matrix_type_bins, cov_in_hist, cov_type_hist, cov_out_hist, cov_writes>>

cov_vars == <<cov_input_fifo, cov_rest>>

out_vars == <<det_valid_s, det_s, ovf_s, omon_pc, omon_has_init_reset,
              omon_pre_delay, period_log>>

cfg_vars == <<dut_bound, drv_errors>>

dut_vars == <<dut_acc, owed, tx_ages, res_log>>

vars == <<sb_vars, bus_vars, cov_vars, out_vars, cfg_vars, dut_vars>>

(***************************************************************************)
(* Bounds of the model.                                                    *)
(***************************************************************************)
MaxIn == 2
MaxOut == 2
MaxCalls == 3
MaxDelay == 25

(***************************************************************************)
(* matrix_det_types.py                                                     *)
(***************************************************************************)
MAT_BUS_WIDTH == 16
MAT_MATRIX_SIZE == 3
DET_BUS_WIDTH == 16

MAT_UNDERFLOW_VALUE == -(2 ^ (MAT_BUS_WIDTH - 1))
MAT_OVERFLOW_VALUE == (2 ^ (MAT_BUS_WIDTH - 1)) - 1
DET_UNDERFLOW_VALUE == -(2 ^ (DET_BUS_WIDTH - 1))
DET_OVERFLOW_VALUE == (2 ^ (DET_BUS_WIDTH - 1)) - 1

Idx == 1..MAT_MATRIX_SIZE
NumElems == MAT_MATRIX_SIZE * MAT_MATRIX_SIZE

(***************************************************************************)
(* matrix_det_items.py                                                     *)
(***************************************************************************)
\* MatrixItem.__init__: all-zero matrix and delays
ZeroGrid == [i \in Idx |-> [j \in Idx |-> 0]]

MatrixItem(m, d) == [matrix |-> m, pre_element_delay |-> d]

\* a 3x3 grid written row by row
Grid(a, b, c, d, e, f, g, h, k) == <<<<a, b, c>>, <<d, e, f>>, <<g, h, k>>>>

DeterminantItem(det, ovf, dly) ==
    [determinant |-> det, overflow |-> ovf, pre_det_delay |-> dly]

\* mutant of determinant_of_matrix: the last product is added, not subtracted
determinant_sign_slip(mat) ==
      mat[1][1] * mat[2][2] * mat[3][3]
    + mat[1][2] * mat[2][3] * mat[3][1]
    + mat[1][3] * mat[2][1] * mat[3][2]
    - mat[1][3] * mat[2][2] * mat[3][1]
    - mat[1][2] * mat[2][1] * mat[3][3]
    + mat[1][1] * mat[2][3] * mat[3][2]

\* MatrixItem.determinant_of_matrix (rule of Sarrus, as the code writes it)
determinant_of_matrix(mat) ==
      mat[1][1] * mat[2][2] * mat[3][3]
    + mat[1][2] * mat[2][3] * mat[3][1]
    + mat[1][3] * mat[2][1] * mat[3][2]
    - mat[1][3] * mat[2][2] * mat[3][1]
    - mat[1][2] * mat[2][1] * mat[3][3]
    - mat[1][1] * mat[2][3] * mat[3][2]

(***************************************************************************)
(* scoreboard.py                                                           *)
(***************************************************************************)
RECURSIVE SumSeq(_)
SumSeq(s) == IF s = <<>> THEN 0 ELSE Head(s) + SumSeq(Tail(s))

\* mutant of TotalDelay: only the first row of delays is added up
TotalDelayFirstRow(d) == SumSeq(d[1])

\* the nested loop of process_input_item that adds up all pre-delays
TotalDelay(d) == SumSeq([i \in Idx |-> SumSeq(d[i])])

\* mutant of Saturate: the underflow test written with <= instead of <
SaturateLe(expected_det) ==
    IF expected_det <= DET_UNDERFLOW_VALUE
    THEN [determinant |-> DET_UNDERFLOW_VALUE, overflow |-> TRUE]
    ELSE IF expected_det > DET_OVERFLOW_VALUE
    THEN [determinant |-> DET_OVERFLOW_VALUE, overflow |-> TRUE]
    ELSE [determinant |-> expected_det, overflow |-> FALSE]

\* process_input_item, "Handle overflow/saturation"
Saturate(expected_det) ==
    IF expected_det < DET_UNDERFLOW_VALUE
    THEN [determinant |-> DET_UNDERFLOW_VALUE, overflow |-> TRUE]
    ELSE IF expected_det > DET_OVERFLOW_VALUE
    THEN [determinant |-> DET_OVERFLOW_VALUE, overflow |-> TRUE]
    ELSE [determinant |-> expected_det, overflow |-> FALSE]

\* process_input_item: the expected item built from an input item
process_input_item(item) ==
    LET expected_det == determinant_of_matrix(item.matrix)
        sat == Saturate(expected_det)
        total_delay == TotalDelay(item.pre_element_delay)
    IN  DeterminantItem(sat.determinant, sat.overflow,
                        total_delay + (MAT_MATRIX_SIZE * MAT_MATRIX_SIZE))

Abs(x) == IF x < 0 THEN -x ELSE x

Min2(a, b) == IF a <= b THEN a ELSE b
Max2(a, b) == IF a >= b THEN a ELSE b

\* mutant of PopExpected: pop() takes the newest entry instead of pop(0)
PopExpectedLast(q) ==
    [item |-> q[Len(q)], rest |-> SubSeq(q, 1, Len(q) - 1)]

\* compare_output_item: expected_queue.pop(0)
PopExpected(q) == [item |-> Head(q), rest |-> Tail(q)]

\* mutant of CompareLog: the overflow flags are not compared
CompareLogDetOnly(expected_item, item) ==
      (IF expected_item.determinant # item.determinant
       THEN <<[level |-> "error", what |-> "determinant_mismatch"]>> ELSE <<>>)
   \o (IF Abs(expected_item.pre_det_delay - item.pre_det_delay) > 2
       THEN <<[level |-> "warning", what |-> "delay_difference"]>> ELSE <<>>)

\* mutant of CompareLog: the delay tolerance test written with >= instead of >
CompareLogGe(expected_item, item) ==
      (IF expected_item.determinant # item.determinant
       THEN <<[level |-> "error", what |-> "determinant_mismatch"]>> ELSE <<>>)
   \o (IF expected_item.overflow # item.overflow
       THEN <<[level |-> "error", what |-> "overflow_mismatch"]>> ELSE <<>>)
   \o (IF Abs(expected_item.pre_det_delay - item.pre_det_delay) >= 2
       THEN <<[level |-> "warning", what |-> "delay_difference"]>> ELSE <<>>)

\* compare_output_item: the log entries of one comparison, in the code's order
CompareLog(expected_item, item) ==
      (IF expected_item.determinant # item.determinant
       THEN <<[level |-> "error", what |-> "determinant_mismatch"]>> ELSE <<>>)
   \o (IF expected_item.overflow # item.overflow
       THEN <<[level |-> "error", what |-> "overflow_mismatch"]>> ELSE <<>>)
   \o (IF Abs(expected_item.pre_det_delay - item.pre_det_delay) > 2
       THEN <<[level |-> "warning", what |-> "delay_difference"]>> ELSE <<>>)

\* mutant of compare_output_item: an output that finds the queue empty is
\* dropped without an error
compare_output_item_silent(q, item) ==
    IF q = <<>>
    THEN [queue |-> q, log |-> <<>>, cmp |-> <<>>]
    ELSE LET p == PopExpected(q)
         IN  [queue |-> p.rest,
              log |-> CompareLog(p.item, item),
              cmp |-> <<[expected |-> p.item, actual |-> item]>>]

\* mutant of compare_output_item: the expected entry stays in the queue when
\* the determinants differ
compare_output_item_keep(q, item) ==
    IF q = <<>>
    THEN [queue |-> q,
          log |-> <<[level |-> "error", what |-> "unexpected_output"]>>,
          cmp |-> <<>>]
    ELSE LET p == PopExpected(q)
         IN  [queue |-> IF p.item.determinant # item.determinant THEN q ELSE p.rest,
              log |-> CompareLog(p.item, item),
              cmp |-> <<[expected |-> p.item, actual |-> item]>>]

\* compare_output_item: the queue it leaves, the log entries it makes and the
\* pair it has compared, if any
compare_output_item(q, item) ==
    IF q = <<>>
    THEN [queue |-> q,
          log |-> <<[level |-> "error", what |-> "unexpected_output"]>>,
          cmp |-> <<>>]
    ELSE LET p == PopExpected(q)
         IN  [queue |-> p.rest,
              log |-> CompareLog(p.item, item),
              cmp |-> <<[expected |-> p.item, actual |-> item]>>]

\* check_phase is entered once the run is over
StartCheck ==
    /\ sb_pc = "run"
    /\ sb_pc' = "inputs"
    /\ UNCHANGED <<input_fifo, output_fifo, expected_queue, sb_log,
                   in_hist, exp_hist, out_hist, cmp_hist>>
    /\ UNCHANGED <<bus_vars, cov_vars, out_vars, cfg_vars, dut_vars>>

\* check_phase, first loop: one try_get + process_input_item
ProcessInput ==
    /\ sb_pc = "inputs"
    /\ input_fifo # <<>>
    /\ LET item == Head(input_fifo)
           expected_item == process_input_item(item)
       IN  /\ input_fifo' = Tail(input_fifo)
           /\ expected_queue' = Append(expected_queue, expected_item)
           /\ in_hist' = Append(in_hist, item)
           /\ exp_hist' = Append(exp_hist, expected_item)
    /\ UNCHANGED <<output_fifo, sb_pc, sb_log, out_hist, cmp_hist>>
    /\ UNCHANGED <<bus_vars, cov_vars, out_vars, cfg_vars, dut_vars>>

\* check_phase: can_get() of the input port is false, go on to the outputs
InputsDrained ==
    /\ sb_pc = "inputs"
    /\ input_fifo = <<>>
    /\ sb_pc' = "outputs"
    /\ UNCHANGED <<input_fifo, output_fifo, expected_queue, sb_log,
                   in_hist, exp_hist, out_hist, cmp_hist>>
    /\ UNCHANGED <<bus_vars, cov_vars, out_vars, cfg_vars, dut_vars>>

\* check_phase, second loop: one try_get + compare_output_item
CompareOutput ==
    /\ sb_pc = "outputs"
    /\ output_fifo # <<>>
    /\ LET item == Head(output_fifo)
       IN  /\ output_fifo' = Tail(output_fifo)
           /\ out_hist' = Append(out_hist, item)
           /\ LET o == compare_output_item(expected_queue, item)
              IN  /\ expected_queue' = o.queue
                  /\ sb_log' = sb_log \o o.log
                  /\ cmp_hist' = cmp_hist \o o.cmp
    /\ UNCHANGED <<input_fifo, sb_pc, in_hist, exp_hist>>
    /\ UNCHANGED <<bus_vars, cov_vars, out_vars, cfg_vars, dut_vars>>

\* mutant of FinishCheck: the end-of-test error is logged without looking at
\* the queue
FinishCheckAlways ==
    /\ sb_pc = "outputs"
    /\ output_fifo = <<>>
    /\ sb_pc' = "done"
    /\ sb_log' = Append(sb_log, [level |-> "error",
                                 what |-> "unprocessed_expected"])
    /\ UNCHANGED <<input_fifo, output_fifo, expected_queue,
                   in_hist, exp_hist, out_hist, cmp_hist>>
    /\ UNCHANGED <<bus_vars, cov_vars, out_vars, cfg_vars, dut_vars>>

\* check_phase: can_get() of the output port is false, final queue check
FinishCheck ==
    /\ sb_pc = "outputs"
    /\ output_fifo = <<>>
    /\ sb_pc' = "done"
    /\ sb_log' = IF expected_queue # <<>>
                 THEN Append(sb_log, [level |-> "error",
                                      what |-> "unprocessed_expected"])
                 ELSE sb_log
    /\ UNCHANGED <<input_fifo, output_fifo, expected_queue,
                   in_hist, exp_hist, out_hist, cmp_hist>>
    /\ UNCHANGED <<bus_vars, cov_vars, out_vars, cfg_vars, dut_vars>>

NextSB ==
    \/ StartCheck
    \/ ProcessInput
    \/ InputsDrained
    \/ CompareOutput
    \/ FinishCheck

(***************************************************************************)
(* coverage_collector.py                                                   *)
(***************************************************************************)
\* mutant of Bump: the count is set to 1
BumpSet(bins, key) ==
    IF key \in DOMAIN bins THEN [bins EXCEPT ![key] = 1]
                           ELSE bins @@ (key :> 1)

\* dictionary[key] += 1, the key created with 0 when it is missing
Bump(bins, key) ==
    IF key \in DOMAIN bins THEN [bins EXCEPT ![key] = @ + 1]
                           ELSE bins @@ (key :> 1)

RECURSIVE BumpAll(_, _)
BumpAll(bins, keys) ==
    IF keys = <<>> THEN bins ELSE BumpAll(Bump(bins, Head(keys)), Tail(keys))

\* mutant of _get_value_range: the bounds of "small" are excluded
value_range_strict(value) ==
    IF value = DET_UNDERFLOW_VALUE THEN "min"
    ELSE IF value = DET_OVERFLOW_VALUE THEN "max"
    ELSE IF -1000 < value /\ value < 1000 THEN "small"
    ELSE IF -10000 <= value /\ value <= 10000 THEN "medium"
    ELSE "large"

_get_value_range(value) ==
    IF value = DET_UNDERFLOW_VALUE THEN "min"
    ELSE IF value = DET_OVERFLOW_VALUE THEN "max"
    ELSE IF -1000 <= value /\ value <= 1000 THEN "small"
    ELSE IF -10000 <= value /\ value <= 10000 THEN "medium"
    ELSE "large"

\* mutant of _get_delay_range: a total of exactly 5 is no longer short
delay_range_lt(delay) ==
    IF delay < 5 THEN "short"
    ELSE IF delay <= 20 THEN "medium"
    ELSE "long"

_get_delay_range(delay) ==
    IF delay <= 5 THEN "short"
    ELSE IF delay <= 20 THEN "medium"
    ELSE "long"

\* the four flag loops of _classify_matrix; a loop that breaks at the first
\* failing cell leaves its flag set exactly when no cell fails
is_identity(matrix) ==
    \A i \in Idx : \A j \in Idx : matrix[i][j] = (IF i = j THEN 1 ELSE 0)

is_diagonal(matrix) ==
    \A i \in Idx : \A j \in Idx : ~(i # j /\ matrix[i][j] # 0)

\* for j in range(i)
is_upper(matrix) ==
    \A i \in Idx : \A j \in 1..(i - 1) : matrix[i][j] = 0

\* for j in range(i+1, MAT_MATRIX_SIZE)
is_lower(matrix) ==
    \A i \in Idx : \A j \in (i + 1)..MAT_MATRIX_SIZE : matrix[i][j] = 0

\* mutant of _classify_matrix: the triangular tests come before the diagonal one
classify_triangular_first(matrix) ==
    IF is_identity(matrix) THEN "identity"
    ELSE IF is_upper(matrix) THEN "triangular_upper"
    ELSE IF is_lower(matrix) THEN "triangular_lower"
    ELSE IF is_diagonal(matrix) THEN "diagonal"
    ELSE "general"

_classify_matrix(matrix) ==
    IF is_identity(matrix) THEN "identity"
    ELSE IF is_diagonal(matrix) THEN "diagonal"
    ELSE IF is_upper(matrix) THEN "triangular_upper"
    ELSE IF is_lower(matrix) THEN "triangular_lower"
    ELSE "general"

\* the element values of a matrix in the order the nested loop visits them
RowMajor(matrix) ==
    [n \in 1..NumElems |->
        matrix[((n - 1) \div MAT_MATRIX_SIZE) + 1][((n - 1) % MAT_MATRIX_SIZE) + 1]]

\* collect_input_coverage(item): the bins afterwards
collect_input_coverage(item) ==
    LET ranges == [n \in 1..NumElems |-> _get_value_range(RowMajor(item.matrix)[n])]
        total_delay == TotalDelay(item.pre_element_delay)
        matrix_type == _classify_matrix(item.matrix)
    IN  [value |-> BumpAll(matrix_value_bins, ranges),
         delay |-> Bump(delay_bins, _get_delay_range(total_delay)),
         type  |-> Bump(matrix_type_bins, matrix_type),
         label |-> matrix_type]

\* mutant of collect_output_coverage: only a set overflow flag is counted
collect_output_coverage_set_only(item) ==
    [det      |-> Bump(determinant_value_bins, _get_value_range(item.determinant)),
     overflow |-> IF item.overflow THEN Bump(overflow_bins, "true") ELSE overflow_bins]

\* collect_output_coverage(item): the bins afterwards
collect_output_coverage(item) ==
    [det      |-> Bump(determinant_value_bins, _get_value_range(item.determinant)),
     overflow |-> Bump(overflow_bins, IF item.overflow THEN "true" ELSE "false")]

\* CoverageCollector.__init__
InitBins ==
    /\ matrix_value_bins = <<>>
    /\ determinant_value_bins = <<>>
    /\ overflow_bins = [k \in {"true", "false"} |-> 0]
    /\ delay_bins = [k \in {"short", "medium", "long"} |-> 0]
    /\ matrix_type_bins = [k \in {"triangular_upper", "triangular_lower", "diagonal",
                                  "identity", "general"} |-> 0]
    /\ cov_pc = "run"
    /\ cov_in_hist = <<>>
    /\ cov_type_hist = <<>>
    /\ cov_out_hist = <<>>
    /\ cov_writes = 0

\* the collector with nothing published to it
InitCovEmpty ==
    /\ cov_input_fifo = <<>>
    /\ cov_output_fifo = <<>>
    /\ InitBins

\* report_phase is entered
StartReport ==
    /\ cov_pc = "run"
    /\ cov_pc' = "inputs"
    /\ UNCHANGED <<cov_input_fifo, cov_output_fifo, matrix_value_bins,
                   determinant_value_bins, overflow_bins, delay_bins,
                   matrix_type_bins, cov_in_hist, cov_type_hist, cov_out_hist, cov_writes>>
    /\ UNCHANGED <<sb_vars, bus_vars, out_vars, cfg_vars, dut_vars>>

\* one iteration of "while self.input_get_port.can_get()"
CollectInput ==
    /\ cov_pc = "inputs"
    /\ cov_input_fifo # <<>>
    /\ LET item == Head(cov_input_fifo)
           o == collect_input_coverage(item)
       IN  /\ cov_input_fifo' = Tail(cov_input_fifo)
           /\ matrix_value_bins' = o.value
           /\ delay_bins' = o.delay
           /\ matrix_type_bins' = o.type
           /\ cov_in_hist' = Append(cov_in_hist, item)
           /\ cov_type_hist' = Append(cov_type_hist, o.label)
    /\ UNCHANGED <<cov_output_fifo, cov_pc, determinant_value_bins, overflow_bins,
                   cov_out_hist, cov_writes>>
    /\ UNCHANGED <<sb_vars, bus_vars, out_vars, cfg_vars, dut_vars>>

\* the first loop ends
ReportInputsDrained ==
    /\ cov_pc = "inputs"
    /\ cov_input_fifo = <<>>
    /\ cov_pc' = "outputs"
    /\ UNCHANGED <<cov_input_fifo, cov_output_fifo, matrix_value_bins,
                   determinant_value_bins, overflow_bins, delay_bins,
                   matrix_type_bins, cov_in_hist, cov_type_hist, cov_out_hist, cov_writes>>
    /\ UNCHANGED <<sb_vars, bus_vars, out_vars, cfg_vars, dut_vars>>

\* one iteration of "while self.output_get_port.can_get()"
CollectOutput ==
    /\ cov_pc = "outputs"
    /\ cov_output_fifo # <<>>
    /\ LET item == Head(cov_output_fifo)
           o == collect_output_coverage(item)
       IN  /\ cov_output_fifo' = Tail(cov_output_fifo)
           /\ determinant_value_bins' = o.det
           /\ overflow_bins' = o.overflow
           /\ cov_out_hist' = Append(cov_out_hist, item)
    /\ UNCHANGED <<cov_input_fifo, cov_pc, matrix_value_bins, delay_bins,
                   matrix_type_bins, cov_in_hist, cov_type_hist, cov_writes>>
    /\ UNCHANGED <<sb_vars, bus_vars, out_vars, cfg_vars, dut_vars>>

\* the second loop ends and the statistics are logged
FinishReport ==
    /\ cov_pc = "outputs"
    /\ cov_output_fifo = <<>>
    /\ cov_pc' = "done"
    /\ UNCHANGED <<cov_input_fifo, cov_output_fifo, matrix_value_bins,
                   determinant_value_bins, overflow_bins, delay_bins,
                   matrix_type_bins, cov_in_hist, cov_type_hist, cov_out_hist, cov_writes>>
    /\ UNCHANGED <<sb_vars, bus_vars, out_vars, cfg_vars, dut_vars>>

MaxCovItems == 2
MaxWrites == 2

\* CoverageCollector.write(item): `pass`
CovWrite ==
    /\ cov_writes < MaxWrites
    /\ cov_writes' = cov_writes + 1
    /\ UNCHANGED <<cov_input_fifo, cov_output_fifo, cov_pc, matrix_value_bins,
                   determinant_value_bins, overflow_bins, delay_bins,
                   matrix_type_bins, cov_in_hist, cov_type_hist, cov_out_hist>>
    /\ UNCHANGED <<sb_vars, bus_vars, out_vars, cfg_vars, dut_vars>>

NextCov ==
    \/ StartReport
    \/ CollectInput
    \/ ReportInputsDrained
    \/ CollectOutput
    \/ FinishReport

(***************************************************************************)
(* The input-side bus (input_agent.py).                                    *)
(*                                                                         *)
(* Scheduling is cocotb's: a task runs from the await that woke it to its  *)
(* next await without interruption.  An environment action (a clock edge,  *)
(* an edge of rst_n, the sequence submitting an item) fires the triggers   *)
(* and puts the woken tasks in `ready`; they run, in any order, before     *)
(* time advances.  A task woken by RisingEdge(clk) reads the signal values *)
(* of that edge (mat_request, valid_s, in_s): writes made by tasks of the  *)
(* same time step are applied after they have all read.  rst_n is driven   *)
(* by the test and read as it stands.                                      *)
(***************************************************************************)
MaxItems == 2
MaxResets == 2
MaxPreDelay == 4
MaxStalls == 1
MaxIdleCount == 3

NoItem == [matrix |-> <<>>, pre_element_delay |-> <<>>]
NoPres == [idx |-> -1, data |-> -1]

\* main_drive_loop: clock edges from the release of rst_n to get_next_item
\* (the edge at which the poll loop sees rst_n high, "One more clock to be safe")
SettleEdges == 2

\* test_matrix_det.py clock_gen: 5 ns low + 5 ns high
CLOCK_PERIOD_NS == 10
\* main_drive_loop: await Timer(100, units='ns')
RETRY_PAUSE_NS == 100
RetryEdges == RETRY_PAUSE_NS \div CLOCK_PERIOD_NS

\* element (i, j) of a grid, idx = 3*i + j
Elem(g, idx) == g[(idx \div MAT_MATRIX_SIZE) + 1][(idx % MAT_MATRIX_SIZE) + 1]

SetElem(g, idx, v) ==
    [g EXCEPT ![(idx \div MAT_MATRIX_SIZE) + 1][(idx % MAT_MATRIX_SIZE) + 1] = v]

\* mutant of Mask16: the element is written as it is
MaskNone(v) == v

\* mutant of Mask16: the mask is 0x7FFF
Mask15(v) == v % 32768

\* drive_matrix: item.matrix[i][j] & 0xFFFF
Mask16(v) == v % 65536

\* mutant of ToSigned: 32768 is taken as positive
ToSignedGe(raw_value) == IF raw_value > 32768 THEN raw_value - 65536 ELSE raw_value

\* monitor_valid_item: signed conversion of the raw bus value
ToSigned(raw_value) == IF raw_value > 32767 THEN raw_value - 65536 ELSE raw_value

\* _drive_idle_data: the value written to mat_in
IdleValue == IF idle_data = "HIGH_IMPEDANCE" THEN 0
             ELSE IF idle_data = "UNKNOWN" THEN 43690
             ELSE 0

IdleModes == {"HIGH_IMPEDANCE", "UNKNOWN", "ZERO"}

\* items the sequences submit: the two of SimpleMatrixSequence and one with
\* negative elements and unequal delays (MatrixSequence / randomize)
BusItems ==
    {MatrixItem(Grid(1, 0, 0, 0, 1, 0, 0, 0, 1), ZeroGrid),
     MatrixItem(Grid(2, 1, 0, 1, 2, 0, 0, 0, 1), Grid(1, 1, 1, 1, 1, 1, 1, 1, 1)),
     MatrixItem(Grid(-1, 7, MAT_UNDERFLOW_VALUE, 0, MAT_OVERFLOW_VALUE, 0, 0, -200, 3),
                Grid(0, 2, 0, 0, 0, 0, 0, 0, 0))}

DtActive == dt_pc \notin {"none", "done"}

\* The monitors' tasks read only the values sampled at the edge and write only
\* the monitor's own state, so their place in the order of a time step changes
\* nothing: they are run first.
MonTasks == {"mon", "mrw", "omon", "orw"}

\* bounds of the histories of the DUT's output side
MaxAge == 12
MaxWait == 13

\* raw det and overflow of a result
DutResults == {<<1, 0>>, <<65535, 1>>}

\* every age one more
Aged(ages) == [k \in DOMAIN ages |-> ages[k] + 1]

\* tasks suspended in `await RisingEdge(self.dut.clk)`
ClkWaiters ==
      (IF drv_pc \in {"poll_clk", "settle_clk"} THEN {"drv"} ELSE {})
    \cup (IF drv_pc = "timer" /\ drv_timer <= 1 THEN {"drv"} ELSE {})
    \cup (IF DtActive THEN {"dt"} ELSE {})
    \cup (IF mon_pc \in {"elem_clk", "wait_clk"} THEN {"mon"} ELSE {})
    \cup (IF omon_pc \in {"first_clk", "wait_clk", "hold_clk"} THEN {"omon"} ELSE {})

\* tasks suspended in `await FallingEdge(self.dut.rst_n)`
FallWaiters ==
      (IF drv_pc = "init_fall" THEN {"drv"} ELSE {})
    \cup (IF drv_pc \notin {"off", "stopped"} THEN {"rw"} ELSE {})
    \cup (IF mon_pc = "init_fall" THEN {"mon"} ELSE {})
    \cup (IF mon_pc # "off" THEN {"mrw"} ELSE {})
    \cup (IF omon_pc = "init_fall" THEN {"omon"} ELSE {})
    \cup (IF omon_pc # "off" THEN {"orw"} ELSE {})

\* tasks suspended in `await RisingEdge(self.dut.rst_n)`
RiseWaiters ==
      (IF drv_pc = "rst_rise" THEN {"drv"} ELSE {})
    \cup (IF mon_pc = "rst_rise" THEN {"mon"} ELSE {})
    \cup (IF omon_pc = "rst_rise" THEN {"omon"} ELSE {})

\* tasks suspended in `await RisingEdge(self.dut.mat_request)`
ReqRiseWaiters == IF mon_pc = "req_rise" THEN {"mon"} ELSE {}

(***************************************************************************)
(* Environment: clock, reset (test_matrix_det.py apply_reset,              *)
(* matrix_sequence.py _apply_random_resets), the DUT's mat_request and the *)
(* sequence body.                                                          *)
(***************************************************************************)
\* The reset watcher of a running driver whose handle is unbound fails at its
\* next `await FallingEdge(self.dut.rst_n)`; that is not modelled: rst_n does
\* not fall in that situation.
ResetAllowed == dut_bound \/ drv_pc \in {"off", "stopped"}

\* the test bench clears driver.dut while the driver waits in get_next_item
Unbind ==
    /\ ready = {}
    /\ pend = "none"
    /\ rst_n = 1
    /\ drv_pc = "get"
    /\ dut_bound
    /\ dut_bound' = FALSE
    /\ UNCHANGED <<sb_vars, bus_vars, cov_vars, out_vars, drv_errors, dut_vars>>

\* A rising clock edge; `ev` says whether rst_n changes in the same time step
\* (apply_reset releases rst_n 105 ns after time 0, the time of a clock edge).
\* Both values are written before any callback comes, and the simulator may
\* call the clock's callback and rst_n's together or the clock's first
\* (`late`): the tasks that wait for the edge of rst_n by then are woken.
\* The DUT then drives mat_request to any value (it is a black box).
ClockEdge ==
    /\ ready = {}
    /\ pend = "none"
    \* bounds of the monitor's history (none while the monitor is not running)
    /\ (mon_pc \in {"elem_clk", "wait_clk"} => mon_pre_delay < MaxPreDelay)
    /\ (mon_pc # "off" /\ mat_valid = 1 /\ dut_req = 0 => stalls < MaxStalls)
    \* bounds of the output side's histories
    /\ \A k \in DOMAIN tx_ages : tx_ages[k] < MaxAge
    /\ \E ev \in {"none", "fall", "rise"}, r \in {0, 1}, late \in BOOLEAN :
        /\ late => ev # "none"
        /\ ev = "fall" => rst_n = 1 /\ resets < MaxResets /\ ResetAllowed
        /\ ev = "rise" => rst_n = 0
        /\ rst_n' = IF ev = "fall" THEN 0 ELSE IF ev = "rise" THEN 1 ELSE rst_n
        /\ resets' = IF ev = "fall" THEN resets + 1 ELSE resets
        /\ mat_request' = dut_req
        /\ valid_s' = mat_valid
        /\ in_s' = mat_in
        /\ dut_req' = r
        /\ ready' = ClkWaiters
                    \cup (IF ev = "fall" /\ ~late THEN FallWaiters ELSE {})
                    \cup (IF ev = "rise" /\ ~late THEN RiseWaiters ELSE {})
                    \cup (IF dut_req = 0 /\ r = 1 THEN ReqRiseWaiters ELSE {})
        /\ pend' = IF late THEN ev ELSE "none"
        /\ drv_timer' = IF drv_pc = "timer" THEN drv_timer - 1 ELSE drv_timer
        /\ edges_since_release' =
              IF ev = "fall" THEN 0
              ELSE IF ev = "rise" THEN 1
              ELSE IF rst_n = 1 THEN Min2(edges_since_release + 1, SettleEdges + 1)
              ELSE 0
        /\ pres' = IF mat_valid = 1 /\ dut_req = 1 THEN NoPres ELSE pres
        /\ stalls' = IF mon_pc # "off" /\ mat_valid = 1 /\ dut_req = 0
                      THEN stalls + 1 ELSE stalls
        /\ mon_miss' = IF mon_pc \in {"elem_clk", "wait_clk"}
                           /\ ~(mat_valid = 1 /\ dut_req = 1)
                        THEN mon_miss + 1 ELSE mon_miss
        /\ low_edges' = IF DtActive /\ mat_valid = 0 /\ mat_in = IdleValue
                         THEN Min2(low_edges + 1, MaxIdleCount) ELSE low_edges
        \* the capture the monitor makes at this very edge comes before the reset
        /\ mon_rst_hit' =
              (mon_rst_hit \/
               (/\ ev = "fall"
                /\ mon_pc \in {"elem_clk", "wait_clk"}
                /\ LET n == IF mat_valid = 1 /\ dut_req = 1
                            THEN mon_idx + 1 ELSE mon_idx
                   IN  n > 0 /\ n < NumElems))
        \* The output side of the DUT, while its monitor runs.  The DUT is a
        \* black box that obeys the protocol: a matrix is received when
        \* NumElems elements were accepted, its result comes at the next edge
        \* for one cycle, and reset clears it.
        /\ IF omon_pc = "off"
           THEN UNCHANGED <<out_vars, dut_vars>>
           ELSE \E v \in {0, 1}, res \in DutResults :
                LET inrst == rst_n = 0 \/ ev = "fall"
                    acc == mat_valid = 1 /\ dut_req = 1 /\ ~inrst
                    full == acc /\ dut_acc + 1 = NumElems
                    rise == v = 1 /\ det_valid_s = 0
                IN  /\ v = 1 <=> (~inrst /\ det_valid_s = 0 /\ owed > 0 /\ tx_ages # <<>>)
                    /\ v = 0 => res = <<1, 0>>
                    /\ (v = 0 /\ omon_pc \in {"first_clk", "wait_clk"})
                          => omon_pre_delay < MaxWait
                    /\ det_valid_s' = v
                    /\ det_s' = IF v = 1 THEN res[1] ELSE 0
                    /\ ovf_s' = IF v = 1 THEN res[2] ELSE 0
                    /\ period_log' = IF rise
                                     THEN Append(period_log,
                                                 [det |-> res[1], overflow |-> res[2]])
                                     ELSE period_log
                    /\ dut_acc' = IF inrst THEN 0
                                  ELSE IF acc THEN (dut_acc + 1) % NumElems
                                  ELSE dut_acc
                    /\ owed' = IF inrst THEN 0
                               ELSE owed + (IF full THEN 1 ELSE 0)
                                         - (IF rise THEN 1 ELSE 0)
                    /\ tx_ages' = IF inrst \/ ev = "rise" THEN <<>>
                                  ELSE IF rise THEN Tail(Aged(tx_ages))
                                  ELSE Aged(tx_ages)
                    /\ res_log' = IF rise THEN Append(res_log, tx_ages[1] + 1)
                                          ELSE res_log
                    /\ UNCHANGED <<omon_pc, omon_has_init_reset, omon_pre_delay>>
    /\ UNCHANGED <<mat_valid, mat_in, idle_data, drv_pc, has_init_reset,
                   finished_item, drv_item, dt_vars, seq_vars, mon_vars,
                   done_log, aborted, abort_pending, mixed_pub, pres_log,
                   sb_vars, cov_vars, cfg_vars>>

\* rst_n falls between two clock edges
RstFall ==
    /\ ready = {}
    /\ pend = "none"
    /\ rst_n = 1
    /\ resets < MaxResets
    /\ ResetAllowed
    /\ rst_n' = 0
    /\ resets' = resets + 1
    /\ ready' = FallWaiters
    /\ edges_since_release' = 0
    /\ mon_rst_hit' = (mon_rst_hit \/
                       (mon_idx > 0 /\ mon_idx < NumElems
                        /\ mon_pc \in {"elem_clk", "wait_clk"}))
    /\ UNCHANGED <<mat_valid, mat_in, dut_req, mat_request, valid_s, in_s, pend,
                   drv_vars, dt_vars, seq_vars, mon_vars,
                   done_log, aborted, abort_pending, pres, stalls, mon_miss, mixed_pub,
                   pres_log, low_edges, sb_vars, cov_vars, out_vars, cfg_vars,
                   res_log>>
    \* the DUT is cleared
    /\ dut_acc' = 0
    /\ owed' = 0
    /\ tx_ages' = <<>>

\* rst_n rises between two clock edges
RstRise ==
    /\ ready = {}
    /\ pend = "none"
    /\ rst_n = 0
    /\ rst_n' = 1
    /\ ready' = RiseWaiters
    /\ edges_since_release' = 0
    /\ UNCHANGED <<mat_valid, mat_in, dut_req, mat_request, valid_s, in_s, pend,
                   drv_vars, dt_vars, seq_vars, mon_vars, resets,
                   done_log, aborted, abort_pending, pres, stalls, mon_miss, mon_rst_hit,
                   mixed_pub, pres_log, low_edges, sb_vars, cov_vars, out_vars, cfg_vars,
                   dut_acc, owed, res_log>>
    /\ tx_ages' = <<>>

\* the callback of an edge of rst_n that comes after the clock's callback of
\* the same time step
ResetCallback ==
    /\ ready = {}
    /\ pend # "none"
    /\ ready' = IF pend = "fall" THEN FallWaiters ELSE RiseWaiters
    /\ pend' = "none"
    /\ UNCHANGED <<sig_vars, drv_vars, dt_vars, seq_vars, mon_vars, hist_vars,
                   sb_vars, cov_vars, out_vars, cfg_vars, dut_vars>>

\* the sequence body: start_item(item) puts the item in the sequencer's queue
\* and blocks; a driver blocked in get_next_item is woken
SeqStartItem ==
    /\ ready = {}
    /\ pend = "none"
    /\ seq_pc = "idle"
    /\ sent < MaxItems
    /\ \E it \in BusItems : seq_item' = it
    /\ seq_pc' = "start_item"
    /\ sent' = sent + 1
    /\ ready' = IF drv_pc = "get" THEN {"drv"} ELSE {}
    /\ UNCHANGED <<sig_vars, pend, drv_vars, dt_vars, sqr_busy, mon_vars,
                   hist_vars, sb_vars, cov_vars, out_vars, cfg_vars, dut_vars>>

(***************************************************************************)
(* MatrixDriver.drive_matrix: the drive task.                              *)
(* Each operator below is the code from one point up to the next await (or *)
(* the end of the task) and yields what the task has then done:            *)
(*   pc, idx, dcnt  where it is suspended; res its result once ended;      *)
(*   valid, data    the values of mat_valid and mat_in after its writes;   *)
(*   shown          the element it has presented, if it presented one.     *)
(***************************************************************************)
DtKilled(idx, dcnt, shown) ==
    [pc |-> "done", idx |-> idx, dcnt |-> dcnt, res |-> "kill",
     valid |-> mat_valid, data |-> mat_in, shown |-> shown]

\* "Check for reset before driving element" ... await RisingEdge(clk)  (l. 130-138)
DtPresent(item, idx, shown) ==
    IF rst_n = 0
    THEN DtKilled(idx, 0, shown)
    ELSE [pc |-> "data_clk", idx |-> idx, dcnt |-> 0, res |-> "none",
          valid |-> 1, data |-> Mask16(Elem(item.matrix, idx)),
          shown |-> [idx |-> idx, data |-> Mask16(Elem(item.matrix, idx))]]

\* top of the element loop, "Check for reset before each element"  (l. 110-128)
DtBeginElement(item, idx, shown) ==
    IF rst_n = 0
    THEN DtKilled(idx, 0, shown)
    ELSE IF Elem(item.pre_element_delay, idx) > 0
    THEN \* mat_valid = 0, first iteration of the delay loop up to its await
         [pc |-> "delay_clk", idx |-> idx, dcnt |-> 1, res |-> "none",
          valid |-> 0, data |-> IdleValue, shown |-> shown]
    ELSE DtPresent(item, idx, shown)

\* mutant of DtDelayLoop: one iteration more than the pre-delay
DtDelayLoopOneMore(item, idx, dcnt, shown) ==
    IF dcnt <= Elem(item.pre_element_delay, idx)
    THEN IF rst_n = 0
         THEN DtKilled(idx, dcnt, shown)
         ELSE [pc |-> "delay_clk", idx |-> idx, dcnt |-> dcnt + 1, res |-> "none",
               valid |-> mat_valid, data |-> IdleValue, shown |-> shown]
    ELSE DtPresent(item, idx, shown)

\* the delay loop after one of its awaits  (l. 121-128)
DtDelayLoop(item, idx, dcnt, shown) ==
    IF dcnt < Elem(item.pre_element_delay, idx)
    THEN IF rst_n = 0
         THEN DtKilled(idx, dcnt, shown)
         ELSE [pc |-> "delay_clk", idx |-> idx, dcnt |-> dcnt + 1, res |-> "none",
               valid |-> mat_valid, data |-> IdleValue, shown |-> shown]
    ELSE DtPresent(item, idx, shown)

\* mutant of DtAckLoop: after element [1][0] the loop goes on two elements
DtAckLoopSkip(item, idx, shown) ==
    IF mat_request # 1
    THEN IF rst_n = 0
         THEN DtKilled(idx, 0, shown)
         ELSE [pc |-> "ack_clk", idx |-> idx, dcnt |-> 0, res |-> "none",
               valid |-> 0, data |-> IdleValue, shown |-> shown]
    ELSE IF idx + 1 < NumElems
    THEN DtBeginElement(item, IF idx = 3 THEN idx + 2 ELSE idx + 1, shown)
    ELSE [pc |-> "done", idx |-> idx, dcnt |-> 0, res |-> "ok",
          valid |-> 0, data |-> IdleValue, shown |-> shown]

\* mutant of DtAckLoop: the idle data is not restored after the last element
DtAckLoopKeepData(item, idx, shown) ==
    IF mat_request # 1
    THEN IF rst_n = 0
         THEN DtKilled(idx, 0, shown)
         ELSE [pc |-> "ack_clk", idx |-> idx, dcnt |-> 0, res |-> "none",
               valid |-> 0, data |-> IdleValue, shown |-> shown]
    ELSE IF idx + 1 < NumElems
    THEN DtBeginElement(item, idx + 1, shown)
    ELSE [pc |-> "done", idx |-> idx, dcnt |-> 0, res |-> "ok",
          valid |-> 0, data |-> mat_in, shown |-> shown]

\* "Wait for mat_request to be asserted (handshake)"  (l. 140-153)
DtAckLoop(item, idx, shown) ==
    IF mat_request # 1
    THEN IF rst_n = 0
         THEN DtKilled(idx, 0, shown)
         ELSE [pc |-> "ack_clk", idx |-> idx, dcnt |-> 0, res |-> "none",
               valid |-> 0, data |-> IdleValue, shown |-> shown]
    ELSE IF idx + 1 < NumElems
    THEN DtBeginElement(item, idx + 1, shown)
    ELSE \* "Deassert mat_valid at the end of the item"
         [pc |-> "done", idx |-> idx, dcnt |-> 0, res |-> "ok",
          valid |-> 0, data |-> IdleValue, shown |-> shown]

\* one run of the drive task, from the clock edge that woke it
drive_matrix(item) ==
    CASE dt_pc = "first_clk" -> DtBeginElement(item, 0, pres)
      [] dt_pc = "delay_clk" -> DtDelayLoop(item, dt_idx, dt_dcnt, pres)
      [] dt_pc \in {"data_clk", "ack_clk"} -> DtAckLoop(item, dt_idx, pres)

DriveTaskStep ==
    /\ "dt" \in ready
    /\ ready \cap MonTasks = {}
    /\ LET o == drive_matrix(drv_item)
       IN  /\ dt_pc' = o.pc
           /\ dt_idx' = o.idx
           /\ dt_dcnt' = o.dcnt
           /\ dt_result' = o.res
           /\ mat_valid' = o.valid
           /\ mat_in' = o.data
           /\ pres' = IF o.res = "kill" THEN NoPres ELSE o.shown
           \* the task has asserted mat_valid for an element; it came to that
           \* element in this run unless it was in the delay loop
           /\ pres_log' = IF o.pc = "data_clk"
                           THEN Append(pres_log,
                                       [idx |-> o.idx, data |-> o.data,
                                        idle |-> IF dt_pc = "delay_clk"
                                                 THEN low_edges ELSE 0])
                           ELSE pres_log
           /\ low_edges' = IF dt_pc = "delay_clk" /\ o.pc = "delay_clk"
                            THEN low_edges ELSE 0
           /\ aborted' = IF o.res = "kill" THEN aborted \cup {sent} ELSE aborted
           /\ abort_pending' = (abort_pending \/ o.res = "kill")
           \* the task ended: `await self.drive_task` of the main loop returns
           /\ ready' = (ready \ {"dt"}) \cup (IF o.pc = "done" THEN {"drv"} ELSE {})
    /\ UNCHANGED <<rst_n, dut_req, mat_request, valid_s, in_s, pend, drv_vars,
                   seq_vars, mon_vars, resets, done_log, edges_since_release,
                   stalls, mon_miss, mon_rst_hit, mixed_pub, sb_vars, cov_vars, out_vars, cfg_vars, dut_vars>>

(***************************************************************************)
(* MatrixDriver.reset_driver: the reset watcher.                           *)
(***************************************************************************)
\* mutant of reset_interface_signals: mat_valid is left as it is
ResetInterfaceKeepValid == [valid |-> mat_valid, data |-> IdleValue]

\* reset_interface_signals (the dut handle is bound)
reset_interface_signals == [valid |-> 0, data |-> IdleValue]

ResetDriverStep ==
    /\ "rw" \in ready
    /\ ready \cap MonTasks = {}
    /\ LET kill == DtActive
           sig == reset_interface_signals
       IN  /\ dt_pc' = IF kill THEN "done" ELSE dt_pc
           /\ dt_result' = IF kill THEN "kill" ELSE dt_result
           /\ ready' = IF kill
                       THEN (ready \ {"rw", "dt"}) \cup {"drv"}
                       ELSE ready \ {"rw"}
           /\ mat_valid' = sig.valid
           /\ mat_in' = sig.data
           /\ finished_item' = TRUE
           /\ aborted' = IF kill THEN aborted \cup {sent} ELSE aborted
           /\ abort_pending' = (abort_pending \/ kill)
           /\ pres' = IF kill THEN NoPres ELSE pres
    /\ UNCHANGED <<rst_n, dut_req, mat_request, valid_s, in_s, pend, idle_data, drv_pc,
                   has_init_reset, drv_timer, drv_item, dt_idx, dt_dcnt,
                   seq_vars, mon_vars, resets, done_log, edges_since_release,
                   stalls, mon_miss, mon_rst_hit, mixed_pub, pres_log, low_edges,
                   sb_vars, cov_vars, out_vars, cfg_vars, dut_vars>>

(***************************************************************************)
(* MatrixDriver.main_drive_loop.                                           *)
(* Each operator yields the driver and sequencer state after the code from *)
(* one point up to the next await.                                         *)
(***************************************************************************)
DrvState(pc, fin, timer, item, busy, spc, done, task) ==
    [pc |-> pc, fin |-> fin, timer |-> timer, item |-> item, busy |-> busy,
     spc |-> spc, done |-> done, task |-> task]

\* top of `while True`: "Wait for reset to be released"  (l. 54-61)
\* with the handle unbound `self.dut.rst_n` raises AttributeError, which the
\* handler of l. 91-97 answers
DrvLoopTop(fin, busy, spc, done) ==
    IF dut_bound
    THEN DrvState(IF rst_n = 0 THEN "poll_clk" ELSE "rst_rise",
                  fin, drv_timer, drv_item, busy, spc, done, FALSE)
    ELSE IF ~fin
    THEN DrvState("timer", TRUE, RetryEdges, drv_item, FALSE,
                  IF spc = "finish_item" THEN "idle" ELSE spc,
                  Append(done, sent), FALSE)
    ELSE DrvState("timer", fin, RetryEdges, drv_item, busy, spc, done, FALSE)

\* `except Exception`: the sequencer refuses get_next_item while the previous
\* item has had no item_done  (l. 91-97)
DrvOnError ==
    IF ~finished_item
    THEN DrvState("timer", TRUE, RetryEdges, drv_item, FALSE,
                  IF seq_pc = "finish_item" THEN "idle" ELSE seq_pc,
                  Append(done_log, sent), FALSE)
    ELSE DrvState("timer", finished_item, RetryEdges, drv_item, sqr_busy,
                  seq_pc, done_log, FALSE)

\* mutant of DrvGetNextItem: the drive task is started but not awaited, the
\* loop goes straight on to its next get_next_item
DrvGetNextItemNoJoin ==
    IF sqr_busy
    THEN DrvOnError
    ELSE IF seq_pc = "start_item"
    THEN DrvState("settle_clk", FALSE, drv_timer, seq_item, TRUE, "finish_item",
                  done_log, TRUE)
    ELSE DrvState("get", finished_item, drv_timer, drv_item, sqr_busy, seq_pc,
                  done_log, FALSE)

\* get_next_item and the start of the drive task  (l. 64-75)
DrvGetNextItem ==
    IF sqr_busy
    THEN DrvOnError
    ELSE IF seq_pc = "start_item"
    THEN DrvState("join", FALSE, drv_timer, seq_item, TRUE, "finish_item",
                  done_log, TRUE)
    ELSE DrvState("get", finished_item, drv_timer, drv_item, sqr_busy, seq_pc,
                  done_log, FALSE)

\* mutant of DrvAfterJoin: item_done is called however the drive task ended
DrvAfterJoinAlwaysDone ==
    DrvLoopTop(TRUE, FALSE, "idle", Append(done_log, sent))

\* `await self.drive_task` returned or raised  (l. 75-90)
DrvAfterJoin ==
    IF dt_result = "ok"
    THEN \* finished_item = True; item_done()
         DrvLoopTop(TRUE, FALSE, "idle", Append(done_log, sent))
    ELSE \* except cocotb.exceptions.Kill: no item_done, continue
         DrvLoopTop(TRUE, sqr_busy, seq_pc, done_log)

\* `while self.dut.rst_n.value == 0: await RisingEdge(clk)` after its await
DrvAfterPoll == DrvLoopTop(finished_item, sqr_busy, seq_pc, done_log)

main_drive_loop ==
    CASE drv_pc = "init_fall" -> DrvLoopTop(finished_item, sqr_busy, seq_pc, done_log)
      [] drv_pc = "poll_clk" -> DrvAfterPoll
      [] drv_pc = "rst_rise" ->
            DrvState("settle_clk", finished_item, drv_timer, drv_item, sqr_busy,
                     seq_pc, done_log, FALSE)
      [] drv_pc \in {"settle_clk", "get"} -> DrvGetNextItem
      [] drv_pc = "join" -> DrvAfterJoin
      [] drv_pc = "timer" -> DrvLoopTop(finished_item, sqr_busy, seq_pc, done_log)

DriverStep ==
    /\ "drv" \in ready
    /\ ready \cap MonTasks = {}
    /\ LET o == main_drive_loop
       IN  /\ drv_pc' = o.pc
           /\ finished_item' = o.fin
           /\ drv_timer' = o.timer
           /\ drv_item' = o.item
           /\ sqr_busy' = o.busy
           /\ seq_pc' = o.spc
           /\ done_log' = o.done
           /\ has_init_reset' = (has_init_reset \/ drv_pc = "init_fall")
           \* cocotb.start_soon(self.drive_matrix(item)): the task runs up to
           \* its first `await RisingEdge(self.dut.clk)`
           \* with the handle unbound drive_matrix logs "DUT handle not set" and
           \* returns before its first await  (l. 101-103)
           /\ dt_pc' = IF o.task THEN (IF dut_bound THEN "first_clk" ELSE "done")
                                  ELSE dt_pc
           /\ dt_idx' = IF o.task THEN 0 ELSE dt_idx
           /\ dt_dcnt' = IF o.task THEN 0 ELSE dt_dcnt
           /\ dt_result' = IF o.task THEN (IF dut_bound THEN "none" ELSE "ok")
                                      ELSE dt_result
           /\ drv_errors' = drv_errors
                               \cup (IF o.task /\ ~dut_bound THEN {"drive_matrix"} ELSE {})
                               \cup (IF o.pc = "timer" THEN {"main_drive_loop"} ELSE {})
           /\ pres_log' = IF o.task THEN <<>> ELSE pres_log
           /\ low_edges' = IF o.task THEN 0 ELSE low_edges
           /\ tx_ages' = IF o.task /\ dut_bound /\ omon_pc # "off"
                          THEN Append(tx_ages, 0) ELSE tx_ages
           /\ abort_pending' = (abort_pending /\ drv_pc \notin {"settle_clk", "get"})
    \* a drive task that has ended at once lets `await self.drive_task` return
    /\ ready' = IF drv_pc \in {"settle_clk", "get"} /\ main_drive_loop.task /\ ~dut_bound
                THEN ready ELSE ready \ {"drv"}
    /\ UNCHANGED <<sig_vars, pend, idle_data, seq_item, sent, mon_vars, resets, aborted,
                   edges_since_release, pres, stalls, mon_miss, mon_rst_hit, mixed_pub,
                   sb_vars, cov_vars, out_vars, dut_bound, dut_acc, owed, res_log>>

(***************************************************************************)
(* MatrixMonitor.monitor_valid_item and reset_monitor.                     *)
(***************************************************************************)
\* mutant of MonCheck: mat_valid alone lets the monitor capture
MonCheckValidOnly(pd) ==
    IF valid_s = 1
    THEN LET it == [matrix |-> SetElem(mon_item.matrix, mon_idx, ToSigned(in_s)),
                    pre_element_delay |->
                        SetElem(mon_item.pre_element_delay, mon_idx, pd)]
         IN  IF mon_idx + 1 = NumElems
             THEN [pc |-> "req_rise", idx |-> mon_idx + 1, pd |-> 0, item |-> it,
                   pub |-> TRUE]
             ELSE [pc |-> "elem_clk", idx |-> mon_idx + 1, pd |-> 0, item |-> it,
                   pub |-> FALSE]
    ELSE [pc |-> "wait_clk", idx |-> mon_idx, pd |-> pd, item |-> mon_item,
          pub |-> FALSE]

\* mutant of MonCheck: the next item is begun without the wait for mat_request
MonCheckNoReqWait(pd) ==
    IF mat_request = 1 /\ valid_s = 1
    THEN LET it == [matrix |-> SetElem(mon_item.matrix, mon_idx, ToSigned(in_s)),
                    pre_element_delay |->
                        SetElem(mon_item.pre_element_delay, mon_idx, pd)]
         IN  IF mon_idx + 1 = NumElems
             THEN [pc |-> "elem_clk", idx |-> 0, pd |-> 0, item |-> it,
                   pub |-> TRUE]
             ELSE [pc |-> "elem_clk", idx |-> mon_idx + 1, pd |-> 0, item |-> it,
                   pub |-> FALSE]
    ELSE [pc |-> "wait_clk", idx |-> mon_idx, pd |-> pd, item |-> mon_item,
          pub |-> FALSE]

\* the loop test and the capture of one element  (l. 262-287)
MonCheck(pd) ==
    IF mat_request = 1 /\ valid_s = 1
    THEN LET it == [matrix |-> SetElem(mon_item.matrix, mon_idx, ToSigned(in_s)),
                    pre_element_delay |->
                        SetElem(mon_item.pre_element_delay, mon_idx, pd)]
         IN  IF mon_idx + 1 = NumElems
             THEN [pc |-> "req_rise", idx |-> mon_idx + 1, pd |-> 0, item |-> it,
                   pub |-> TRUE]
             ELSE [pc |-> "elem_clk", idx |-> mon_idx + 1, pd |-> 0, item |-> it,
                   pub |-> FALSE]
    ELSE [pc |-> "wait_clk", idx |-> mon_idx, pd |-> pd, item |-> mon_item,
          pub |-> FALSE]

\* `collected_valid_item = MatrixItem(...)` and the first await of the loops
MonNewItem ==
    [pc |-> "elem_clk", idx |-> 0, pd |-> 0, item |-> MatrixItem(ZeroGrid, ZeroGrid),
     pub |-> FALSE]

monitor_valid_item ==
    CASE mon_pc = "init_fall" ->
            [pc |-> "rst_rise", idx |-> mon_idx, pd |-> mon_pre_delay,
             item |-> mon_item, pub |-> FALSE]
      [] mon_pc \in {"rst_rise", "req_rise"} -> MonNewItem
      [] mon_pc = "elem_clk" -> MonCheck(0)
      [] mon_pc = "wait_clk" -> MonCheck(mon_pre_delay + 1)

MonitorStep ==
    /\ "mon" \in ready
    /\ "mrw" \notin ready
    /\ LET o == monitor_valid_item
       IN  /\ mon_pc' = o.pc
           /\ mon_idx' = o.idx
           /\ mon_pre_delay' = o.pd
           /\ mon_item' = o.item
           \* self.ap.write(collected_valid_item)
           /\ input_fifo' = IF o.pub THEN Append(input_fifo, o.item) ELSE input_fifo
           /\ cov_input_fifo' = IF o.pub THEN Append(cov_input_fifo, o.item)
                                          ELSE cov_input_fifo
           /\ mixed_pub' = (mixed_pub \/ (o.pub /\ mon_rst_hit))
           /\ mon_rst_hit' = (mon_rst_hit /\ o.idx # 0 /\ ~o.pub)
           \* the wait for the next element begins after a capture
           /\ mon_miss' = IF o.idx # mon_idx THEN 0 ELSE mon_miss
    /\ ready' = ready \ {"mon"}
    /\ UNCHANGED <<sig_vars, pend, drv_vars, dt_vars, seq_vars, mon_has_init_reset,
                   resets, done_log, aborted, abort_pending, edges_since_release,
                   pres, stalls, pres_log, low_edges, sb_rest, cov_rest, out_vars, cfg_vars, dut_vars>>

\* mutant of ResetMonitorStep: the monitor clears the interface as the driver's
\* reset watcher does
ResetMonitorStepWrites ==
    /\ "mrw" \in ready
    /\ mon_has_init_reset' = TRUE
    /\ ready' = ready \ {"mrw"}
    /\ mat_valid' = 0
    /\ mat_in' = IdleValue
    /\ UNCHANGED <<rst_n, dut_req, mat_request, valid_s, in_s, pend, drv_vars, dt_vars,
                   seq_vars, mon_pc, mon_idx,
                   mon_pre_delay, mon_item, hist_vars, sb_vars, cov_vars, out_vars, cfg_vars, dut_vars>>

\* reset_monitor: self.valid_process is never assigned, so nothing is killed;
\* reset_local_variables sets has_init_reset
ResetMonitorStep ==
    /\ "mrw" \in ready
    /\ mon_has_init_reset' = TRUE
    /\ ready' = ready \ {"mrw"}
    /\ UNCHANGED <<sig_vars, pend, drv_vars, dt_vars, seq_vars, mon_pc, mon_idx,
                   mon_pre_delay, mon_item, hist_vars, sb_vars, cov_vars, out_vars, cfg_vars, dut_vars>>

\* the state after construction and the start of the run phases: every task
\* is suspended at its first await
InitBusMode(mode) ==
    /\ rst_n = 1
    /\ mat_valid = 0
    /\ mat_in = 0
    /\ dut_req = 0
    /\ mat_request = 0
    /\ valid_s = 0
    /\ in_s = 0
    /\ ready = {}
    /\ pend = "none"
    /\ idle_data = mode
    /\ drv_pc = "init_fall"
    /\ has_init_reset = FALSE
    /\ finished_item = FALSE
    /\ drv_timer = 0
    /\ drv_item = NoItem
    /\ dt_pc = "none"
    /\ dt_idx = 0
    /\ dt_dcnt = 0
    /\ dt_result = "none"
    /\ seq_pc = "idle"
    /\ seq_item = NoItem
    /\ sqr_busy = FALSE
    /\ sent = 0
    /\ mon_pc \in {"init_fall", "off"}
    /\ mon_has_init_reset = FALSE
    /\ mon_idx = 0
    /\ mon_pre_delay = 0
    /\ mon_item = NoItem
    /\ resets = 0
    /\ done_log = <<>>
    /\ aborted = {}
    /\ abort_pending = FALSE
    /\ edges_since_release = 0
    /\ pres = NoPres
    /\ stalls = 0
    /\ mon_rst_hit = FALSE
    /\ mixed_pub = FALSE
    /\ pres_log = <<>>
    /\ low_edges = 0
    /\ mon_miss = 0

\* idle_data as __init__ sets it  (l. 21)
InitBus == InitBusMode("HIGH_IMPEDANCE")

NextBus ==
    \/ ClockEdge
    \/ ResetCallback
    \/ RstFall
    \/ RstRise
    \/ SeqStartItem
    \/ DriverStep
    \/ DriveTaskStep
    \/ ResetDriverStep
    \/ MonitorStep
    \/ ResetMonitorStep

(***************************************************************************)
(* DeterminantMonitor (output_agent.py) with the output side of the DUT.   *)
(* The DUT is a black box: at every clock edge det_valid, det and overflow *)
(* may hold any value.  The input side takes no part: none of its actions  *)
(* is in NextOut.                                                          *)
(***************************************************************************)
MaxOutPeriods == 2
MaxOutDelay == 2

\* raw values of dut.det on both sides of the sign bit
RawVals == {1, 32768, 65535}

\* monitor_valid_item: signed conversion of the raw determinant  (l. 66-72)
DetToSigned(raw_det_value) ==
    IF raw_det_value > 32767 THEN raw_det_value - 65536 ELSE raw_det_value

OutActive == omon_pc \in {"first_clk", "wait_clk", "hold_clk"}

\* a rising clock edge: the DUT's outputs of that edge are sampled
OutClockEdge ==
    /\ ready = {}
    /\ OutActive
    /\ \E v \in {0, 1}, d \in RawVals, o \in {0, 1} :
        \* bounds of the histories
        /\ (v = 0 /\ omon_pc \in {"first_clk", "wait_clk"})
              => omon_pre_delay < MaxOutDelay
        /\ (v = 1 /\ det_valid_s = 0) => Len(period_log) < MaxOutPeriods
        /\ det_valid_s' = v
        /\ det_s' = d
        /\ ovf_s' = o
        /\ period_log' = IF v = 1 /\ det_valid_s = 0
                         THEN Append(period_log, [det |-> d, overflow |-> o])
                         ELSE period_log
    /\ ready' = {"omon"}
    /\ UNCHANGED <<omon_pc, omon_has_init_reset, omon_pre_delay>>
    /\ UNCHANGED <<sig_vars, pend, drv_vars, dt_vars, seq_vars, mon_vars, hist_vars,
                   sb_vars, cov_vars>>
    /\ UNCHANGED <<cfg_vars, dut_vars>>

\* rst_n falls
OutRstFall ==
    /\ ready = {}
    /\ omon_pc # "off"
    /\ rst_n = 1
    /\ resets < MaxResets
    /\ rst_n' = 0
    /\ resets' = resets + 1
    /\ ready' = {"orw"} \cup (IF omon_pc = "init_fall" THEN {"omon"} ELSE {})
    /\ UNCHANGED <<mat_valid, mat_in, dut_req, mat_request, valid_s, in_s, pend,
                   drv_vars, dt_vars, seq_vars, mon_vars, done_log, aborted,
                   abort_pending, edges_since_release, pres, stalls, mon_rst_hit,
                   mixed_pub, pres_log, low_edges, mon_miss, sb_vars, cov_vars,
                   out_vars, cfg_vars, dut_vars>>

\* rst_n rises
OutRstRise ==
    /\ ready = {}
    /\ omon_pc # "off"
    /\ rst_n = 0
    /\ rst_n' = 1
    /\ ready' = IF omon_pc = "rst_rise" THEN {"omon"} ELSE {}
    /\ UNCHANGED <<mat_valid, mat_in, dut_req, mat_request, valid_s, in_s, pend,
                   drv_vars, dt_vars, seq_vars, mon_vars, hist_vars, sb_vars,
                   cov_vars, out_vars, cfg_vars, dut_vars>>

\* the state of the output monitor after a run of its task:
\*   pc, pd  where it is suspended and its pre_delay; pub whether it published
OmonState(pc, pd, pub) == [pc |-> pc, pd |-> pd, pub |-> pub]

\* mutant of OmonAfterHold: the next item is begun whether det_valid fell or not
OmonAfterHoldNoWait == OmonState("first_clk", 0, FALSE)

\* "Wait for det_valid to go low (end of transaction)"  (l. 83-84); then the
\* next item up to its first await  (l. 53-57)
OmonAfterHold ==
    IF det_valid_s = 1 THEN OmonState("hold_clk", omon_pre_delay, FALSE)
                       ELSE OmonState("first_clk", 0, FALSE)

\* "Wait for det_valid to be asserted", the capture and the publication
\* (l. 59-80); the loop that follows finds det_valid still 1 and awaits
OmonCheck(pd) ==
    IF det_valid_s # 1 THEN OmonState("wait_clk", pd, FALSE)
                       ELSE OmonState("hold_clk", pd, TRUE)

output_monitor_valid_item ==
    CASE omon_pc = "init_fall" -> OmonState("rst_rise", omon_pre_delay, FALSE)
      [] omon_pc = "rst_rise" -> OmonState("first_clk", 0, FALSE)
      [] omon_pc = "first_clk" -> OmonCheck(0)
      [] omon_pc = "wait_clk" -> OmonCheck(omon_pre_delay + 1)
      [] omon_pc = "hold_clk" -> OmonAfterHold

OutMonitorStep ==
    /\ "omon" \in ready
    /\ "orw" \notin ready
    /\ LET o == output_monitor_valid_item
           item == DeterminantItem(DetToSigned(det_s), ovf_s = 1, o.pd)
       IN  /\ omon_pc' = o.pc
           /\ omon_pre_delay' = o.pd
           \* self.ap.write(collected_valid_item)
           /\ output_fifo' = IF o.pub THEN Append(output_fifo, item) ELSE output_fifo
           /\ cov_output_fifo' = IF o.pub THEN Append(cov_output_fifo, item)
                                           ELSE cov_output_fifo
    /\ ready' = ready \ {"omon"}
    /\ UNCHANGED <<det_valid_s, det_s, ovf_s, omon_has_init_reset, period_log>>
    /\ UNCHANGED <<input_fifo, expected_queue, sb_pc, sb_log, in_hist, exp_hist,
                   out_hist, cmp_hist>>
    /\ UNCHANGED <<cov_input_fifo, cov_pc, matrix_value_bins, determinant_value_bins,
                   overflow_bins, delay_bins, matrix_type_bins, cov_in_hist,
                   cov_type_hist, cov_out_hist, cov_writes>>
    /\ UNCHANGED <<sig_vars, pend, drv_vars, dt_vars, seq_vars, mon_vars, hist_vars>>
    /\ UNCHANGED <<cfg_vars, dut_vars>>

\* reset_monitor: self.valid_process is never assigned, so nothing is killed;
\* reset_local_variables sets has_init_reset
OutResetMonitorStep ==
    /\ "orw" \in ready
    /\ omon_has_init_reset' = TRUE
    /\ ready' = ready \ {"orw"}
    /\ UNCHANGED <<det_valid_s, det_s, ovf_s, omon_pc, omon_pre_delay, period_log>>
    /\ UNCHANGED <<sig_vars, pend, drv_vars, dt_vars, seq_vars, mon_vars, hist_vars,
                   sb_vars, cov_vars>>
    /\ UNCHANGED <<cfg_vars, dut_vars>>

\* the handle bound by the test's connect_phase (test_matrix_det.py l. 32-35)
InitBound ==
    /\ dut_bound = TRUE
    /\ drv_errors = {}

\* the DUT has received nothing
InitDut ==
    /\ dut_acc = 0
    /\ owed = 0
    /\ tx_ages = <<>>
    /\ res_log = <<>>

\* the output side with its monitor not running
InitOutIdle ==
    /\ det_valid_s = 0
    /\ det_s = 0
    /\ ovf_s = 0
    /\ omon_pc = "off"
    /\ omon_has_init_reset = FALSE
    /\ omon_pre_delay = 0
    /\ period_log = <<>>

NextOut ==
    \/ OutClockEdge
    \/ OutRstFall
    \/ OutRstRise
    \/ OutMonitorStep
    \/ OutResetMonitorStep

(***************************************************************************)
(* Inputs of the scoreboard specifications.                                *)
(***************************************************************************)
\* element values that reach both bus limits and products around them
ElemVals == {MAT_UNDERFLOW_VALUE, -200, -1, 0, 1, 200, MAT_OVERFLOW_VALUE}

\* matrices [[a,b,0],[c,d,0],[0,0,1]]: raw determinant a*d - b*c
GoldenMatrices ==
    {Grid(a, b, 0, c, d, 0, 0, 0, 1) : a \in ElemVals, b \in ElemVals,
                                       c \in ElemVals, d \in ElemVals}

DelayGrids == {ZeroGrid,
               Grid(1, 1, 1, 1, 1, 1, 1, 1, 1),
               Grid(0, 2, 0, 0, 0, 10, 0, 0, 0)}

\* the two items of SimpleMatrixSequence and one saturating item
SBInputs ==
    {MatrixItem(Grid(1, 0, 0, 0, 1, 0, 0, 0, 1), ZeroGrid),
     MatrixItem(Grid(2, 1, 0, 1, 2, 0, 0, 0, 1), Grid(1, 1, 1, 1, 1, 1, 1, 1, 1)),
     MatrixItem(Grid(200, 0, 0, 0, 200, 0, 0, 0, 1), ZeroGrid)}

SBOutputs ==
    {DeterminantItem(v, o, dl) : v \in {1, 3, DET_OVERFLOW_VALUE},
                                 o \in BOOLEAN, dl \in {9, 12}}

SeqsUpTo(S, n) == UNION {[1..k -> S] : k \in 0..n}

InitSBCommon ==
    /\ expected_queue = <<>>
    /\ sb_pc = "run"
    /\ sb_log = <<>>
    /\ in_hist = <<>>
    /\ exp_hist = <<>>
    /\ out_hist = <<>>
    /\ cmp_hist = <<>>

\* the FIFOs hold whatever the monitors published during the run
InitSB ==
    /\ input_fifo \in SeqsUpTo(SBInputs, MaxIn)
    /\ output_fifo \in SeqsUpTo(SBOutputs, MaxOut)
    /\ InitSBCommon
    /\ InitBus
    /\ InitOutIdle
    /\ InitBound
    /\ InitDut
    /\ InitCovEmpty
    /\ mon_pc = "init_fall"

\* one input item drawn from the large matrix family, at most one output
InitGolden ==
    /\ input_fifo \in {<<MatrixItem(m, d)>> : m \in GoldenMatrices, d \in DelayGrids}
    /\ output_fifo \in SeqsUpTo({DeterminantItem(1, FALSE, 9)}, 1)
    /\ InitSBCommon
    /\ InitBus
    /\ InitOutIdle
    /\ InitBound
    /\ InitDut
    /\ InitCovEmpty
    /\ mon_pc = "init_fall"

\* the run phase: empty FIFOs, all tasks at their first await
Init ==
    /\ input_fifo = <<>>
    /\ output_fifo = <<>>
    /\ InitSBCommon
    /\ InitBus
    /\ InitOutIdle
    /\ InitBound
    /\ InitDut
    /\ InitCovEmpty
    /\ mon_pc = "init_fall"

\* the driver, the sequencer and the bus alone: the monitor's tasks are left out
InitDrv ==
    /\ input_fifo = <<>>
    /\ output_fifo = <<>>
    /\ InitSBCommon
    /\ InitBus
    /\ InitOutIdle
    /\ InitBound
    /\ InitDut
    /\ InitCovEmpty
    /\ mon_pc = "off"

NextDrv ==
    \/ ClockEdge
    \/ ResetCallback
    \/ RstFall
    \/ RstRise
    \/ SeqStartItem
    \/ DriverStep
    \/ DriveTaskStep
    \/ ResetDriverStep

\* The two methods called directly, in any order (sb_pc = "calls").
\* process_input_item(item)
CallProcessInput ==
    /\ sb_pc = "calls"
    /\ Len(in_hist) + Len(out_hist) < MaxCalls
    /\ \E item \in SBInputs :
        LET expected_item == process_input_item(item)
        IN  /\ expected_queue' = Append(expected_queue, expected_item)
            /\ in_hist' = Append(in_hist, item)
            /\ exp_hist' = Append(exp_hist, expected_item)
    /\ UNCHANGED <<input_fifo, output_fifo, sb_pc, sb_log, out_hist, cmp_hist>>
    /\ UNCHANGED <<bus_vars, cov_vars, out_vars, cfg_vars, dut_vars>>

\* compare_output_item(item)
CallCompareOutput ==
    /\ sb_pc = "calls"
    /\ Len(in_hist) + Len(out_hist) < MaxCalls
    /\ \E item \in SBOutputs :
        LET o == compare_output_item(expected_queue, item)
        IN  /\ out_hist' = Append(out_hist, item)
            /\ expected_queue' = o.queue
            /\ sb_log' = sb_log \o o.log
            /\ cmp_hist' = cmp_hist \o o.cmp
    /\ UNCHANGED <<input_fifo, output_fifo, sb_pc, in_hist, exp_hist>>
    /\ UNCHANGED <<bus_vars, cov_vars, out_vars, cfg_vars, dut_vars>>

NextCalls ==
    \/ CallProcessInput
    \/ CallCompareOutput

\* a fresh scoreboard (MatrixScoreboard.__init__) whose methods are called
InitCalls ==
    /\ input_fifo = <<>>
    /\ output_fifo = <<>>
    /\ expected_queue = <<>>
    /\ sb_pc = "calls"
    /\ sb_log = <<>>
    /\ in_hist = <<>>
    /\ exp_hist = <<>>
    /\ out_hist = <<>>
    /\ cmp_hist = <<>>
    /\ InitBus
    /\ InitOutIdle
    /\ InitBound
    /\ InitDut
    /\ InitCovEmpty
    /\ mon_pc = "init_fall"

\* delay grids: those above, a single delay of 1 or 10 (randomize draws
\* 0..10) at each of the nine positions, nine different delays, all at 10
DelayFamily ==
    DelayGrids
    \cup {SetElem(ZeroGrid, idx, v) : idx \in 0..(NumElems - 1), v \in {1, 10}}
    \cup {Grid(1, 2, 3, 4, 5, 6, 7, 8, 9),
          Grid(10, 10, 10, 10, 10, 10, 10, 10, 10)}

\* one input item of the identity matrix with any of the delay grids, and one
\* output whose delay ranges over every value around the small expected ones
InitDelay ==
    /\ input_fifo \in {<<MatrixItem(Grid(1, 0, 0, 0, 1, 0, 0, 0, 1), d)>> :
                           d \in DelayFamily}
    /\ output_fifo \in {<<DeterminantItem(v, o, dl)>> :
                            v \in {1, 3}, o \in BOOLEAN, dl \in 0..MaxDelay}
    /\ InitSBCommon
    /\ InitBus
    /\ InitOutIdle
    /\ InitBound
    /\ InitDut
    /\ InitCovEmpty
    /\ mon_pc = "init_fall"

\* all 3x3 matrices over {-1, 0, 1} (identity, permutations, singular ones),
\* all over {-700, 3, 700} (products near the limit of the checker's
\* integers), and the matrices with elements at the bus limits
FullGrids(V) ==
    {Grid(a, b, c, d, e, f, g, h, k) :
        a \in V, b \in V, c \in V, d \in V, e \in V, f \in V,
        g \in V, h \in V, k \in V}

DetMatrices(U, V) == FullGrids(U) \cup FullGrids(V) \cup GoldenMatrices

InitDet ==
    /\ input_fifo \in {<<MatrixItem(m, ZeroGrid)>> : m \in DetMatrices({-1, 0, 1}, {-700, 3, 700})}
    /\ output_fifo = <<DeterminantItem(1, FALSE, 9)>>
    /\ InitSBCommon
    /\ InitBus
    /\ InitOutIdle
    /\ InitBound
    /\ InitDut
    /\ InitCovEmpty
    /\ mon_pc = "init_fall"

\* matrices of every shape the classifier tells apart: all over {0, 1}, the
\* same with the ones replaced by 2 or by -3, and some with the bus limits
CovMatrices ==
    FullGrids({0, 1})
        \cup {[i \in Idx |-> [j \in Idx |-> v * m[i][j]]] :
                 v \in {2, -3}, m \in FullGrids({0, 1})}
        \cup {Grid(a, 0, 0, 0, b, 0, c, 0, 1) :
                 a \in ElemVals, b \in ElemVals, c \in ElemVals}

CovOutputs ==
    {DeterminantItem(v, v \in {DET_UNDERFLOW_VALUE, DET_OVERFLOW_VALUE}, 9) :
        v \in {DET_UNDERFLOW_VALUE, -5000, 1, 20000, DET_OVERFLOW_VALUE}}

\* the state at the start of report_phase: the FIFOs hold what was published
InitCov ==
    /\ cov_input_fifo \in {<<MatrixItem(m, d)>> : m \in CovMatrices, d \in DelayGrids}
    /\ cov_output_fifo \in SeqsUpTo(CovOutputs, 1)
    /\ InitBins
    /\ input_fifo = <<>>
    /\ output_fifo = <<>>
    /\ InitSBCommon
    /\ InitBus
    /\ InitOutIdle
    /\ InitBound
    /\ InitDut
    /\ mon_pc = "init_fall"

\* values on both sides of every bound of _get_value_range
BinVals == {DET_UNDERFLOW_VALUE, -32767, -10001, -10000, -1001, -1000, -999, 0,
            1000, 1001, 10000, 10001, 32766, DET_OVERFLOW_VALUE}

\* one input item with two elements from BinVals, one output item
InitRange ==
    /\ cov_input_fifo \in {<<MatrixItem(Grid(v, 0, 0, 0, w, 0, 0, 0, 1), ZeroGrid)>> :
                               v \in BinVals, w \in BinVals}
    /\ cov_output_fifo \in {<<DeterminantItem(v, FALSE, 9)>> :
                                v \in BinVals \cup {-40000, 40000}}
    /\ InitBins
    /\ input_fifo = <<>>
    /\ output_fifo = <<>>
    /\ InitSBCommon
    /\ InitBus
    /\ InitOutIdle
    /\ InitBound
    /\ InitDut
    /\ mon_pc = "init_fall"

\* delay grids whose totals lie on both sides of the bounds 5 and 20, the
\* total made of one delay or spread over several elements, and the family
\* of single delays
BinDelays ==
    DelayFamily
    \cup {Grid(5, 0, 0, 0, 0, 0, 0, 0, 0), Grid(0, 1, 1, 1, 1, 1, 0, 0, 0),
          Grid(0, 0, 0, 0, 0, 0, 0, 0, 6), Grid(1, 1, 1, 1, 1, 1, 0, 0, 0),
          Grid(10, 0, 0, 0, 0, 0, 0, 0, 10), Grid(2, 2, 2, 2, 2, 2, 2, 2, 4),
          Grid(10, 1, 0, 0, 0, 0, 0, 0, 10), Grid(3, 3, 3, 3, 3, 3, 3, 0, 0),
          Grid(0, 0, 0, 4, 0, 0, 0, 0, 0)}

\* up to two input items of the identity matrix with those delays
InitDelayBin ==
    /\ cov_input_fifo \in
          (SeqsUpTo({MatrixItem(Grid(1, 0, 0, 0, 1, 0, 0, 0, 1), d) : d \in BinDelays}, 2)
              \ {<<>>})
    /\ cov_output_fifo \in SeqsUpTo({DeterminantItem(1, FALSE, 9)}, 1)
    /\ InitBins
    /\ input_fifo = <<>>
    /\ output_fifo = <<>>
    /\ InitSBCommon
    /\ InitBus
    /\ InitOutIdle
    /\ InitBound
    /\ InitDut
    /\ mon_pc = "init_fall"

\* the output monitor at its first await, the input side left out
InitOut ==
    /\ input_fifo = <<>>
    /\ output_fifo = <<>>
    /\ InitSBCommon
    /\ InitBus
    /\ InitCovEmpty
    /\ mon_pc = "off"
    /\ det_valid_s = 0
    /\ det_s = 0
    /\ ovf_s = 0
    /\ omon_pc = "init_fall"
    /\ omon_has_init_reset = FALSE
    /\ omon_pre_delay = 0
    /\ period_log = <<>>
    /\ InitBound
    /\ InitDut

\* raw 16-bit values: those around 0, the sign bit and the top, and one in
\* every block of 1024
RawSample ==
    {0, 1, 2, 32766, 32767, 32768, 32769, 65534, 65535}
        \cup {1024 * k + 7 : k \in 0..63}

\* both monitors woken by a clock edge at which the element and the result
\* were valid, with any raw values on mat_in and det
InitConv ==
    /\ input_fifo = <<>>
    /\ output_fifo = <<>>
    /\ InitSBCommon
    /\ InitCovEmpty
    /\ rst_n = 1
    /\ mat_valid = 1
    /\ mat_in \in RawSample
    /\ dut_req = 1
    /\ mat_request = 1
    /\ valid_s = 1
    /\ in_s = mat_in
    /\ ready = {"mon", "omon"}
    /\ pend = "none"
    /\ idle_data = "HIGH_IMPEDANCE"
    /\ drv_pc = "off"
    /\ has_init_reset = TRUE
    /\ finished_item = FALSE
    /\ drv_timer = 0
    /\ drv_item = NoItem
    /\ dt_pc = "none"
    /\ dt_idx = 0
    /\ dt_dcnt = 0
    /\ dt_result = "none"
    /\ seq_pc = "idle"
    /\ seq_item = NoItem
    /\ sqr_busy = FALSE
    /\ sent = 0
    /\ mon_pc = "elem_clk"
    /\ mon_has_init_reset = TRUE
    /\ mon_idx = 0
    /\ mon_pre_delay = 0
    /\ mon_item = MatrixItem(ZeroGrid, ZeroGrid)
    /\ resets = 1
    /\ done_log = <<>>
    /\ aborted = {}
    /\ abort_pending = FALSE
    /\ edges_since_release = 1
    /\ pres = NoPres
    /\ stalls = 0
    /\ mon_rst_hit = FALSE
    /\ mixed_pub = FALSE
    /\ pres_log = <<>>
    /\ low_edges = 0
    /\ mon_miss = 0
    /\ det_valid_s = 1
    /\ det_s \in {in_s, 65535 - in_s}
    /\ ovf_s \in {0, 1}
    /\ omon_pc = "first_clk"
    /\ omon_has_init_reset = TRUE
    /\ omon_pre_delay = 0
    /\ period_log = <<[det |-> det_s, overflow |-> ovf_s]>>
    /\ InitBound
    /\ InitDut

\* signed element values: the limits, those around 0 and one in every block
\* of 1024
RoundVals ==
    {MAT_UNDERFLOW_VALUE, MAT_UNDERFLOW_VALUE + 1, -2, -1, 0, 1, 2,
     MAT_OVERFLOW_VALUE - 1, MAT_OVERFLOW_VALUE}
        \cup {1024 * k + 7 : k \in -32..31}

\* after the last reset the driver has fetched an item and started its drive
\* task; the clock edge that wakes the task and the monitor has come.  The
\* item holds any signed value v and -1 - v.
InitRound ==
    /\ input_fifo = <<>>
    /\ output_fifo = <<>>
    /\ InitSBCommon
    /\ InitCovEmpty
    /\ InitOutIdle
    /\ InitBound
    /\ InitDut
    /\ rst_n = 1
    /\ mat_valid = 0
    /\ mat_in = 0
    /\ dut_req = 1
    /\ mat_request = 1
    /\ valid_s = 0
    /\ in_s = 0
    /\ ready = {"mon", "dt"}
    /\ pend = "none"
    /\ idle_data = "HIGH_IMPEDANCE"
    /\ drv_pc = "join"
    /\ has_init_reset = TRUE
    /\ finished_item = FALSE
    /\ drv_timer = 0
    /\ drv_item \in {MatrixItem(Grid(v, 0, 0, 0, -1 - v, 0, 0, 0, v), ZeroGrid) :
                         v \in RoundVals}
    /\ dt_pc = "first_clk"
    /\ dt_idx = 0
    /\ dt_dcnt = 0
    /\ dt_result = "none"
    /\ seq_pc = "finish_item"
    /\ seq_item = drv_item
    /\ sqr_busy = TRUE
    /\ sent = 1
    /\ mon_pc = "wait_clk"
    /\ mon_has_init_reset = TRUE
    /\ mon_idx = 0
    /\ mon_pre_delay = 0
    /\ mon_item = MatrixItem(ZeroGrid, ZeroGrid)
    /\ resets = MaxResets
    /\ done_log = <<>>
    /\ aborted = {}
    /\ abort_pending = FALSE
    /\ edges_since_release = 1
    /\ pres = NoPres
    /\ stalls = 0
    /\ mon_rst_hit = FALSE
    /\ mixed_pub = FALSE
    /\ pres_log = <<>>
    /\ low_edges = 1
    /\ mon_miss = 2

\* the transfer of that item: the clock, the drive task, the monitor and the
\* main loop's item_done
NextRound ==
    \/ ClockEdge
    \/ DriveTaskStep
    \/ MonitorStep
    \/ DriverStep

\* the steps the two monitors take on those values
NextConv ==
    \/ MonitorStep
    \/ OutMonitorStep

\* the handle never bound: run_phase has started reset_driver and run
\* main_drive_loop, whose first statement `await FallingEdge(self.dut.rst_n)`
\* raised AttributeError; run_phase logged it and killed the reset task
\* (l. 27-45)
InitStopped ==
    /\ input_fifo = <<>>
    /\ output_fifo = <<>>
    /\ InitSBCommon
    /\ InitCovEmpty
    /\ InitOutIdle
    /\ dut_bound = FALSE
    /\ InitDut
    /\ drv_errors = {"run_phase"}
    /\ rst_n = 1
    /\ mat_valid = 0
    /\ mat_in = 0
    /\ dut_req = 0
    /\ mat_request = 0
    /\ valid_s = 0
    /\ in_s = 0
    /\ ready = {}
    /\ pend = "none"
    /\ idle_data = "HIGH_IMPEDANCE"
    /\ drv_pc = "stopped"
    /\ has_init_reset = FALSE
    /\ finished_item = FALSE
    /\ drv_timer = 0
    /\ drv_item = NoItem
    /\ dt_pc = "none"
    /\ dt_idx = 0
    /\ dt_dcnt = 0
    /\ dt_result = "none"
    /\ seq_pc = "idle"
    /\ seq_item = NoItem
    /\ sqr_busy = FALSE
    /\ sent = 0
    /\ mon_pc = "off"
    /\ mon_has_init_reset = FALSE
    /\ mon_idx = 0
    /\ mon_pre_delay = 0
    /\ mon_item = NoItem
    /\ resets = 0
    /\ done_log = <<>>
    /\ aborted = {}
    /\ abort_pending = FALSE
    /\ edges_since_release = 0
    /\ pres = NoPres
    /\ stalls = 0
    /\ mon_rst_hit = FALSE
    /\ mixed_pub = FALSE
    /\ pres_log = <<>>
    /\ low_edges = 0
    /\ mon_miss = 0

\* the handle bound by connect_phase, or never bound
InitUnbound ==
    \/ InitDrv
    \/ InitStopped

\* the driver's actions, and the handle cleared between two transactions
NextUnbound ==
    \/ NextDrv
    \/ Unbind

\* an input monitor's ap.write(item) during the run: the item goes to the
\* scoreboard's and the collector's FIFO (matrix_det_env.py l. 42, 48)
PublishInput ==
    /\ cov_pc = "run"
    /\ Len(cov_input_fifo) < MaxCovItems
    /\ \E item \in BusItems :
        /\ input_fifo' = Append(input_fifo, item)
        /\ cov_input_fifo' = Append(cov_input_fifo, item)
    /\ UNCHANGED <<sb_rest, cov_rest, bus_vars, out_vars, cfg_vars, dut_vars>>

\* the output monitor's ap.write(item) during the run  (l. 45, 49)
PublishOutput ==
    /\ cov_pc = "run"
    /\ Len(cov_output_fifo) < MaxCovItems
    /\ \E item \in CovOutputs :
        /\ output_fifo' = Append(output_fifo, item)
        /\ cov_output_fifo' = Append(cov_output_fifo, item)
    /\ UNCHANGED <<input_fifo, expected_queue, sb_pc, sb_log, in_hist, exp_hist,
                   out_hist, cmp_hist>>
    /\ UNCHANGED <<cov_input_fifo, cov_pc, matrix_value_bins, determinant_value_bins,
                   overflow_bins, delay_bins, matrix_type_bins, cov_in_hist,
                   cov_type_hist, cov_out_hist, cov_writes>>
    /\ UNCHANGED <<bus_vars, out_vars, cfg_vars, dut_vars>>

\* a run in which the monitors publish and write() is called, then the report
NextCovRun ==
    \/ PublishInput
    \/ PublishOutput
    \/ CovWrite
    \/ NextCov

SpecSB == InitSB /\ [][NextSB]_vars

SpecCovRun == Init /\ [][NextCovRun]_vars

SpecUnbound == InitUnbound /\ [][NextUnbound]_vars

SpecConv == InitConv /\ [][NextConv]_vars

SpecRound == InitRound /\ [][NextRound]_vars

SpecOut == InitOut /\ [][NextOut]_vars

SpecDelayBin == InitDelayBin /\ [][NextCov]_vars

SpecRange == InitRange /\ [][NextCov]_vars

SpecCov == InitCov /\ [][NextCov]_vars

SpecDet == InitDet /\ [][NextSB]_vars

SpecDelay == InitDelay /\ [][NextSB]_vars

SpecCalls == InitCalls /\ [][NextCalls]_vars

SpecGolden == InitGolden /\ [][NextSB]_vars

Spec == Init /\ [][NextBus]_vars

SpecDrv == InitDrv /\ [][NextDrv]_vars

\* the driver alone, idle_data set to any of its three values before the run
InitIdle ==
    /\ input_fifo = <<>>
    /\ output_fifo = <<>>
    /\ InitSBCommon
    /\ \E mode \in IdleModes : InitBusMode(mode)
    /\ InitOutIdle
    /\ InitBound
    /\ InitDut
    /\ InitCovEmpty
    /\ mon_pc = "off"

SpecIdle == InitIdle /\ [][NextDrv]_vars

\* the driver, the DUT and the output monitor on one clock and one reset
NextSysOut ==
    \/ NextDrv
    \/ OutMonitorStep
    \/ OutResetMonitorStep

SpecSysOut == InitOut /\ [][NextSysOut]_vars

\* the driver with the input monitor, or the driver with the output monitor
InitSys ==
    \/ Init
    \/ InitOut

NextSys ==
    \/ NextBus
    \/ OutMonitorStep
    \/ OutResetMonitorStep

SpecSys == InitSys /\ [][NextSys]_vars

\* Scheduling: cocotb runs every woken task (WF of the task steps and of the
\* late callback), clock_gen never stops (WF of ClockEdge), apply_reset and
\* _apply_random_resets release each reset they assert (SF of RstRise), the
\* sequence body submits its next item once the previous one has returned
\* (SF of SeqStartItem), and the DUT raises mat_request again and again.
FairDrv ==
    /\ InitDrv
    /\ [][NextDrv]_vars
    /\ WF_vars(ClockEdge)
    /\ WF_vars(ResetCallback)
    /\ WF_vars(DriverStep)
    /\ WF_vars(DriveTaskStep)
    /\ WF_vars(ResetDriverStep)
    /\ SF_vars(RstRise)
    /\ SF_vars(SeqStartItem)
    /\ SF_vars(ClockEdge /\ dut_req' = 1)

(***************************************************************************)
(* Claims about the scoreboard.                                            *)
(***************************************************************************)
ClampTo(r, lo, hi) == Max2(lo, Min2(hi, r))

\* C1: every expected item appended by process_input_item carries
\* determinant = clamp(R, -2^15, 2^15-1) and overflow = (R # that value),
\* R being the raw determinant of the input item; R = 40000 gives 32767 with
\* overflow set, and R equal to either limit gives overflow clear.
C1_Saturation ==
    sb_pc = "inputs" =>
        \A k \in 1..Len(expected_queue) :
            LET R == determinant_of_matrix(in_hist[k].matrix)
                e == expected_queue[k]
                c == ClampTo(R, -(2 ^ 15), (2 ^ 15) - 1)
            IN  /\ e.determinant = c
                /\ e.overflow = (R # c)
                /\ (R = 40000 => e.determinant = 32767 /\ e.overflow)
                /\ (R \in {-(2 ^ 15), (2 ^ 15) - 1} => ~e.overflow /\ e.determinant = R)

\* C1 witness: an item with raw determinant 40000 has been processed, and so
\* has one whose raw determinant is exactly a limit (separate behaviours share
\* no state, so the witness is the 40000 case with a saturated entry queued)
C1_Witness ==
    /\ sb_pc = "inputs"
    /\ Len(expected_queue) = 1
    /\ determinant_of_matrix(in_hist[1].matrix) = 40000
    /\ expected_queue[1].determinant = 32767
    /\ expected_queue[1].overflow

\* C2: matching is strictly FIFO: the k-th comparison pairs the k-th drained
\* output with the expected item built from the k-th drained input, and the
\* queue always holds exactly the expected items newer than the compared ones.
C2_FIFO ==
    /\ Len(cmp_hist) <= Min2(Len(in_hist), Len(out_hist))
    /\ \A k \in 1..Len(cmp_hist) :
           /\ cmp_hist[k].expected = exp_hist[k]
           /\ cmp_hist[k].expected = process_input_item(in_hist[k])
           /\ cmp_hist[k].actual = out_hist[k]
    /\ expected_queue = SubSeq(exp_hist, Len(cmp_hist) + 1, Len(exp_hist))
    /\ (sb_pc = "done" => Len(cmp_hist) = Min2(Len(in_hist), Len(out_hist)))

\* C2 witness: two comparisons were made against two different expected items
C2_Witness ==
    /\ Len(cmp_hist) = 2
    /\ cmp_hist[1].expected # cmp_hist[2].expected
    /\ cmp_hist[1].actual # cmp_hist[2].actual

(***************************************************************************)
(* Claims about the driver, the reset watcher and the sequencer.           *)
(***************************************************************************)
\* the reset watcher has run for the latest assertion of rst_n
WatcherRan == "rw" \notin ready /\ pend # "fall"

C4_ResumeAfterRelease ==
    (abort_pending /\ rst_n = 1 /\ ready = {} /\ pend = "none")
        => edges_since_release <= SettleEdges

\* C5: while an element is presented and not yet accepted, mat_valid is high
\* and mat_in holds that element.
C5_HoldUntilAccepted ==
    pres # NoPres => (mat_valid = 1 /\ mat_in = pres.data)

\* C6: the drive task moves on to the next element, or ends the item, only at
\* a clock edge at which mat_valid and mat_request were both high.
C6_AdvanceOnlyOnAccept ==
    [][(dt_idx' = dt_idx + 1 \/ (dt_result # "ok" /\ dt_result' = "ok"))
          => (valid_s = 1 /\ mat_request = 1)]_vars

\* C7: once the watcher has run for an assertion of rst_n, and until rst_n is
\* released, mat_valid is 0, mat_in is idle, and no drive task is past its
\* first await (a task started during the reset has written nothing).
C7_IdleWhileReset ==
    (rst_n = 0 /\ WatcherRan)
        => /\ mat_valid = 0
           /\ mat_in = IdleValue
           /\ dt_pc \in {"none", "done", "first_clk"}

\* C7 witness: the watcher has cancelled a drive task that had presented
\* elements, and rst_n is still low
C7_Witness ==
    /\ rst_n = 0
    /\ WatcherRan
    /\ ready = {}
    /\ dt_result = "kill"
    /\ dt_idx > 0
    /\ mat_valid = 0

\* C8: no item the input monitor publishes holds elements captured before and
\* after an assertion of rst_n.
C8_NoMixedPublication == ~mixed_pub

\* C9: a generator blocked in finish_item on an item whose drive a reset has
\* cancelled is eventually unblocked.
C9_GeneratorUnblocked ==
    (seq_pc = "finish_item" /\ sent \in aborted) ~> (seq_pc # "finish_item")

\* C10: once the single reset pulse is over, item_done is eventually called
\* for every item of the sequence, in submission order, unless a second reset
\* is asserted.
C10_AllDoneAfterOneReset ==
    (resets = 1 /\ rst_n = 1)
        ~> (resets > 1 \/ done_log = [k \in 1..MaxItems |-> k])

\* C11: at most one transaction is in flight: a drive task is active only
\* while the main loop awaits it with the sequencer's item outstanding, so
\* get_next_item is never called while a drive task is active.
C11_OneInFlight ==
    DtActive => (drv_pc = "join" /\ sqr_busy /\ seq_pc = "finish_item")

\* C11 witness: the second item is being driven after the first was completed
C11_Witness ==
    /\ DtActive
    /\ dt_idx > 0
    /\ sent = 2
    /\ done_log = <<1>>

\* C12: reset idempotence: whenever a reset has been asserted and released
\* (and every woken task has run), the bus is idle, no drive task is active
\* and the input monitor holds an empty reconstruction: element index 0 and
\* delay counter 0, as after the initial reset.
C12_ResetIdempotent ==
    (resets >= 1 /\ rst_n = 1 /\ edges_since_release = 0
        /\ ready = {} /\ pend = "none")
        => /\ mat_valid = 0
           /\ mat_in = IdleValue
           /\ ~DtActive
           /\ mon_idx = 0
           /\ mon_pre_delay = 0

\* C13: when reset is asserted while element [1][1] is presented, the drive
\* is abandoned and a next transaction is eventually obtained and driven from
\* element [0][0] (a new drive task starts at its first await).
C13_RestartAfterMidItemReset ==
    (rst_n = 0 /\ dt_pc = "data_clk" /\ dt_idx = 4 /\ mat_valid = 1)
        ~> (dt_pc = "first_clk" /\ dt_idx = 0)

(***************************************************************************)
(* Claims about the scoreboard's error handling.                           *)
(***************************************************************************)
\* a step that is one call of compare_output_item
IsCompareCall == Len(out_hist') = Len(out_hist) + 1

UnexpectedOutput == [level |-> "error", what |-> "unexpected_output"]

\* C14: a call of compare_output_item that finds expected_queue empty logs
\* the unexpected-output error and nothing else, compares nothing and leaves
\* the queue empty; a later call that finds entries is matched normally: it
\* pops the oldest entry and compares it with its output.
C14_UnexpectedOutput ==
    [][IsCompareCall =>
          IF expected_queue = <<>>
          THEN /\ sb_log' = Append(sb_log, UnexpectedOutput)
               /\ expected_queue' = <<>>
               /\ cmp_hist' = cmp_hist
          ELSE /\ expected_queue' = Tail(expected_queue)
               /\ cmp_hist' = Append(cmp_hist,
                                     [expected |-> Head(expected_queue),
                                      actual |-> out_hist'[Len(out_hist')]])
               /\ \A k \in (Len(sb_log) + 1)..Len(sb_log') :
                      sb_log'[k] # UnexpectedOutput]_vars

\* C14 witness: the first output found the queue empty, an input was then
\* processed and the second output was compared with its expected item
C14_Witness ==
    /\ Len(out_hist) = 2
    /\ Len(in_hist) = 1
    /\ sb_log[1] = UnexpectedOutput
    /\ cmp_hist = <<[expected |-> exp_hist[1], actual |-> out_hist[2]]>>
    /\ expected_queue = <<>>

LostTransactions == [level |-> "error", what |-> "unprocessed_expected"]

LostReported == \E k \in 1..Len(sb_log) : sb_log[k] = LostTransactions

\* C15: the lost-transaction error is logged only at the end of check_phase,
\* and there exactly when expected_queue is not empty after the last output;
\* when every input was matched by an output the queue is empty and no such
\* error is logged.
C15_LostAtEnd ==
    /\ sb_pc # "done" => ~LostReported
    /\ sb_pc = "done" =>
           /\ LostReported <=> expected_queue # <<>>
           /\ LostReported => sb_log[Len(sb_log)] = LostTransactions
           /\ Len(cmp_hist) = Len(in_hist) => (expected_queue = <<>> /\ ~LostReported)
           /\ Len(cmp_hist) < Len(in_hist) => LostReported

\* C15 witness: check_phase ended with two inputs, one output and the error
C15_Witness ==
    /\ sb_pc = "done"
    /\ Len(in_hist) = 2
    /\ Len(out_hist) = 1
    /\ Len(expected_queue) = 1
    /\ LostReported

\* the log entries made by the step
NewLog == SubSeq(sb_log', Len(sb_log) + 1, Len(sb_log'))

IsError(e) == e.level = "error"

IsWarning(e) == e.level = "warning"

\* C16: a comparison logs an error exactly when the determinants differ or
\* the overflow flags differ (one error for each); whatever the outcome the
\* expected entry is consumed, so the next output meets the next entry.
C16_MismatchErrors ==
    [][(IsCompareCall /\ expected_queue # <<>>) =>
          LET e == Head(expected_queue)
              a == out_hist'[Len(out_hist')]
          IN  /\ Len(SelectSeq(NewLog, IsError))
                     = (IF e.determinant # a.determinant THEN 1 ELSE 0)
                       + (IF e.overflow # a.overflow THEN 1 ELSE 0)
              /\ expected_queue' = Tail(expected_queue)
              /\ cmp_hist' = Append(cmp_hist, [expected |-> e, actual |-> a])]_vars

\* C16 witness: the first comparison logged a determinant mismatch and the
\* second output was then compared with the second expected item, with both
\* values agreeing
C16_Witness ==
    /\ Len(cmp_hist) = 2
    /\ cmp_hist[1].expected.determinant # cmp_hist[1].actual.determinant
    /\ sb_log[1] = [level |-> "error", what |-> "determinant_mismatch"]
    /\ cmp_hist[2].expected = exp_hist[2]
    /\ cmp_hist[2].expected.determinant = cmp_hist[2].actual.determinant
    /\ cmp_hist[2].expected.overflow = cmp_hist[2].actual.overflow

DelayDeviation(p) == Abs(p.expected.pre_det_delay - p.actual.pre_det_delay)

\* C17: a comparison logs the delay warning exactly when the expected and the
\* actual delay differ by more than 2, and a comparison whose determinant and
\* overflow flag agree logs no error, whatever the delays.
C17_DelayWarning ==
    [][(IsCompareCall /\ expected_queue # <<>>) =>
          LET p == [expected |-> Head(expected_queue),
                    actual |-> out_hist'[Len(out_hist')]]
          IN  /\ Len(SelectSeq(NewLog, IsWarning))
                     = (IF DelayDeviation(p) > 2 THEN 1 ELSE 0)
              /\ (DelayDeviation(p) = 2 => SelectSeq(NewLog, IsWarning) = <<>>)
              /\ (/\ p.expected.determinant = p.actual.determinant
                  /\ p.expected.overflow = p.actual.overflow)
                    => SelectSeq(NewLog, IsError) = <<>>]_vars

\* C17 witness: a comparison with agreeing values and a delay deviation of 3
\* has logged the warning and no error
C17_Witness ==
    /\ Len(cmp_hist) = 1
    /\ DelayDeviation(cmp_hist[1]) = 3
    /\ sb_log = <<[level |-> "warning", what |-> "delay_difference"]>>

\* the sum of the nine pre-delays of an item, written out
SumOfDelays(d) ==
    d[1][1] + d[1][2] + d[1][3] + d[2][1] + d[2][2] + d[2][3]
    + d[3][1] + d[3][2] + d[3][3]

\* C18: the expected delay of every processed input is the sum of its nine
\* pre-delays plus N^2 = 9; an input with all pre-delays zero has 9.
C18_ExpectedDelay ==
    \A k \in 1..Len(exp_hist) :
        /\ exp_hist[k].pre_det_delay
               = SumOfDelays(in_hist[k].pre_element_delay) + 9
        /\ in_hist[k].pre_element_delay = ZeroGrid
               => exp_hist[k].pre_det_delay = 9

\* C18 witness: an input with pre-delays 2 and 10 was given expected delay 21
C18_Witness ==
    /\ Len(exp_hist) = 1
    /\ in_hist[1].pre_element_delay = Grid(0, 2, 0, 0, 0, 10, 0, 0, 0)
    /\ exp_hist[1].pre_det_delay = 21

\* cofactor expansion along the first row
Laplace(m) ==
      m[1][1] * (m[2][2] * m[3][3] - m[2][3] * m[3][2])
    - m[1][2] * (m[2][1] * m[3][3] - m[2][3] * m[3][1])
    + m[1][3] * (m[2][1] * m[3][2] - m[2][2] * m[3][1])

\* C19: determinant_of_matrix is the cofactor expansion along the first row,
\* in exact integers, and the expected item of every processed input is built
\* from that value; the identity matrix gives 1.
C19_ExactDeterminant ==
    \A k \in 1..Len(in_hist) :
        LET m == in_hist[k].matrix
        IN  /\ determinant_of_matrix(m) = Laplace(m)
            /\ exp_hist[k].determinant
                   = ClampTo(Laplace(m), DET_UNDERFLOW_VALUE, DET_OVERFLOW_VALUE)
            /\ exp_hist[k].overflow
                   = (Laplace(m) \notin DET_UNDERFLOW_VALUE..DET_OVERFLOW_VALUE)
            /\ m = Grid(1, 0, 0, 0, 1, 0, 0, 0, 1) => exp_hist[k].determinant = 1

\* C19 witness: a matrix with no zero element and a determinant that is not
\* saturated was processed
C19_Witness ==
    /\ Len(in_hist) = 1
    /\ in_hist[1].matrix = Grid(1, 1, -1, 1, -1, 1, -1, 1, 1)
    /\ exp_hist[1].determinant = -4
    /\ ~exp_hist[1].overflow

\* the labels in the order of their tests, and each label's own condition
Labels == <<"identity", "diagonal", "triangular_upper", "triangular_lower", "general">>

Holds(l, m) ==
    CASE l = "identity" ->
             /\ m[1][1] = 1 /\ m[2][2] = 1 /\ m[3][3] = 1
             /\ m[1][2] = 0 /\ m[1][3] = 0 /\ m[2][1] = 0
             /\ m[2][3] = 0 /\ m[3][1] = 0 /\ m[3][2] = 0
      [] l = "diagonal" ->
             /\ m[1][2] = 0 /\ m[1][3] = 0 /\ m[2][1] = 0
             /\ m[2][3] = 0 /\ m[3][1] = 0 /\ m[3][2] = 0
      [] l = "triangular_upper" -> m[2][1] = 0 /\ m[3][1] = 0 /\ m[3][2] = 0
      [] l = "triangular_lower" -> m[1][2] = 0 /\ m[1][3] = 0 /\ m[2][3] = 0
      [] l = "general" -> TRUE

FirstLabel(m) ==
    Labels[CHOOSE n \in 1..Len(Labels) :
               /\ Holds(Labels[n], m)
               /\ \A k \in 1..(n - 1) : ~Holds(Labels[k], m)]

\* C20: every collected matrix got exactly one label, the first in the order
\* identity, diagonal, triangular_upper, triangular_lower, general whose
\* condition holds; the identity is "identity", any other matrix with zero
\* off-diagonal entries (the zero matrix too) is "diagonal", a matrix that
\* meets no condition is "general"; exactly that label's bin was incremented.
C20_FirstMatchingLabel ==
    /\ Len(cov_type_hist) = Len(cov_in_hist)
    /\ \A k \in 1..Len(cov_in_hist) :
        LET m == cov_in_hist[k].matrix
            l == cov_type_hist[k]
        IN  /\ l = FirstLabel(m)
            /\ m = Grid(1, 0, 0, 0, 1, 0, 0, 0, 1) => l = "identity"
            /\ (Holds("diagonal", m) /\ ~Holds("identity", m)) => l = "diagonal"
            /\ m = ZeroGrid => l = "diagonal"
            /\ (\A n \in 1..4 : ~Holds(Labels[n], m)) <=> l = "general"
    /\ \A l \in DOMAIN matrix_type_bins :
        matrix_type_bins[l] = Cardinality({k \in 1..Len(cov_type_hist) : cov_type_hist[k] = l})

\* C20 witness: a diagonal matrix that is also upper and lower triangular, and
\* is not the identity, was classified and counted as diagonal
C20_Witness ==
    /\ Len(cov_in_hist) = 1
    /\ cov_in_hist[1].matrix = Grid(2, 0, 0, 0, 0, 0, 0, 0, 2)
    /\ cov_type_hist = <<"diagonal">>
    /\ matrix_type_bins["diagonal"] = 1
    /\ matrix_type_bins["triangular_upper"] = 0

\* the value bin by magnitude
ExpectedRange(v) ==
    IF v = -32768 THEN "min"
    ELSE IF v = 32767 THEN "max"
    ELSE IF Abs(v) <= 1000 THEN "small"
    ELSE IF Abs(v) <= 10000 THEN "medium"
    ELSE "large"

CountIn(bins, key) == IF key \in DOMAIN bins THEN bins[key] ELSE 0

RangeLabels == {"min", "max", "small", "medium", "large"}

\* C21: every collected matrix element and every collected determinant was
\* counted in the bin "min" for -32768, "max" for 32767, else "small" for
\* |v| <= 1000, "medium" for |v| <= 10000, "large" otherwise -- the same rule
\* for both dictionaries; 1000 is small, 1001 and 10000 medium, 10001 large,
\* and so are their negatives.
C21_ValueRange ==
    /\ DOMAIN matrix_value_bins \subseteq RangeLabels
    /\ DOMAIN determinant_value_bins \subseteq RangeLabels
    /\ \A l \in RangeLabels :
        /\ CountIn(matrix_value_bins, l)
              = Cardinality({c \in (1..Len(cov_in_hist)) \X Idx \X Idx :
                               ExpectedRange(cov_in_hist[c[1]].matrix[c[2]][c[3]]) = l})
        /\ CountIn(determinant_value_bins, l)
              = Cardinality({k \in 1..Len(cov_out_hist) :
                               ExpectedRange(cov_out_hist[k].determinant) = l})
    /\ \A k \in 1..Len(cov_out_hist) :
        LET v == cov_out_hist[k].determinant
        IN  /\ v \in {1000, -1000} => CountIn(determinant_value_bins, "small") > 0
            /\ v \in {1001, -1001, 10000, -10000}
                   => CountIn(determinant_value_bins, "medium") > 0
            /\ v \in {10001, -10001} => CountIn(determinant_value_bins, "large") > 0
    /\ \A k \in 1..Len(cov_in_hist) :
        LET v == cov_in_hist[k].matrix[1][1]
            w == cov_in_hist[k].matrix[2][2]
        IN  /\ (v \in {1000, -1000} /\ w = 10001)
                   => CountIn(matrix_value_bins, "small") = 8
            /\ (v \in {1001, -1001, 10000, -10000} /\ w = 10001)
                   => CountIn(matrix_value_bins, "medium") = 1
            /\ (v \in {10001, -10001} /\ w = 0)
                   => CountIn(matrix_value_bins, "large") = 1

\* C21 witness: a matrix with the elements -10001 and 1000 and the
\* determinant 1001 were collected
C21_Witness ==
    /\ cov_pc = "done"
    /\ Len(cov_in_hist) = 1
    /\ cov_in_hist[1].matrix = Grid(-10001, 0, 0, 0, 1000, 0, 0, 0, 1)
    /\ matrix_value_bins = ("large" :> 1) @@ ("small" :> 8)
    /\ Len(cov_out_hist) = 1
    /\ cov_out_hist[1].determinant = 1001
    /\ determinant_value_bins = ("medium" :> 1)

\* the delay bin of a total pre-delay
ExpectedDelayBin(total) ==
    IF total <= 5 THEN "short"
    ELSE IF total \in 6..20 THEN "medium"
    ELSE "long"

\* C22: every collected input item was counted in exactly the delay bin of the
\* total of its nine pre-delays: short for a total <= 5, medium for 6..20,
\* long for more than 20.
C22_DelayBin ==
    /\ DOMAIN delay_bins = {"short", "medium", "long"}
    /\ \A l \in DOMAIN delay_bins :
        delay_bins[l]
           = Cardinality({k \in 1..Len(cov_in_hist) :
                            ExpectedDelayBin(SumOfDelays(cov_in_hist[k].pre_element_delay)) = l})

\* C22 witness: an item with total 5 (spread over five elements) and an item
\* with total 21 were collected
C22_Witness ==
    /\ Len(cov_in_hist) = 2
    /\ cov_in_hist[1].pre_element_delay = Grid(0, 1, 1, 1, 1, 1, 0, 0, 0)
    /\ cov_in_hist[2].pre_element_delay = Grid(10, 1, 0, 0, 0, 0, 0, 0, 10)
    /\ delay_bins["short"] = 1
    /\ delay_bins["medium"] = 0
    /\ delay_bins["long"] = 1

\* C23: within a drive task the elements are presented in row-major order,
\* the n-th presentation being that of element n - 1, so none twice and none
\* skipped; a task that ran to its end without a reset has presented all nine.
C23_RowMajorOrder ==
    /\ \A n \in 1..Len(pres_log) : pres_log[n].idx = n - 1
    /\ Len(pres_log) <= NumElems
    /\ dt_result = "ok" => Len(pres_log) = NumElems
    /\ (DtActive /\ mat_valid = 1) =>
          (pres_log # <<>> /\ mat_in = pres_log[Len(pres_log)].data)

\* C23 witness: the item with unequal delays was driven to its end
C23_Witness ==
    /\ dt_result = "ok"
    /\ drv_item.pre_element_delay = Grid(0, 2, 0, 0, 0, 0, 0, 0, 0)
    /\ Len(pres_log) = NumElems
    /\ pres_log[NumElems].idx = NumElems - 1

\* C24: an element with pre-delay d is presented after exactly d clock edges
\* at which mat_valid was low and mat_in held the idle pattern, counted from
\* the point the driver came to that element; none for d = 0.
C24_IdleEdgesBeforeElement ==
    \A n \in 1..Len(pres_log) :
        LET d == drv_item.pre_element_delay[((n - 1) \div 3) + 1][((n - 1) % 3) + 1]
        IN  /\ d > 0 => pres_log[n].idle = d
            /\ d = 0 => pres_log[n].idle = 0

\* C24 witness: element [0][1] with pre-delay 2 was presented after two idle
\* edges, element [0][2] with pre-delay 0 after none
C24_Witness ==
    /\ drv_item.pre_element_delay = Grid(0, 2, 0, 0, 0, 0, 0, 0, 0)
    /\ Len(pres_log) >= 3
    /\ pres_log[2].idle = 2
    /\ pres_log[3].idle = 0

\* C25: the value put on mat_in with mat_valid is the element modulo 2^16: the
\* element itself when it is not negative, the element plus 2^16 when it is,
\* always within 0 .. 2^16 - 1.
C25_MaskedElement ==
    \A n \in 1..Len(pres_log) :
        LET v == drv_item.matrix[((n - 1) \div 3) + 1][((n - 1) % 3) + 1]
        IN  /\ pres_log[n].data \in 0..65535
            /\ pres_log[n].data = IF v < 0 THEN v + 65536 ELSE v

\* C25 witness: the elements -1 and -32768 were presented as 65535 and 32768
C25_Witness ==
    /\ Len(pres_log) >= 3
    /\ drv_item.matrix[1] = <<-1, 7, MAT_UNDERFLOW_VALUE>>
    /\ pres_log[1].data = 65535
    /\ pres_log[3].data = 32768
    /\ mat_valid = 1
    /\ mat_in = 32768

\* the monitor captured an element in this step: its count of elements grew
Captured == mon_idx' = mon_idx + 1

\* C27: the input monitor captures an element only in a step that follows a
\* clock edge at which mat_valid and mat_request were both sampled 1, and the
\* delay it records for the element is the number of clock edges it sampled,
\* since it began to wait for that element, at which they were not both 1.
C27_CaptureOnValidAndRequest ==
    [][Captured =>
          /\ valid_s = 1
          /\ mat_request = 1
          /\ mon_item'.pre_element_delay[(mon_idx \div 3) + 1][(mon_idx % 3) + 1]
                = mon_miss]_vars

\* C27 witness: an element was captured with a recorded delay of 2
C27_Witness ==
    /\ mon_idx = 2
    /\ mon_item.pre_element_delay[1][2] = 2
    /\ mon_miss = 0

\* two's-complement reading of a raw 16-bit value
ExpectedSigned(r) == IF r >= 32768 THEN r - 65536 ELSE r

\* C26: the element the input monitor captured and the determinant the output
\* monitor published are the raw bus value r read as r - 2^16 when r >= 2^15
\* and as r otherwise, so they lie in -2^15 .. 2^15 - 1.
C26_SignedConversion ==
    /\ mon_idx = 1 =>
          /\ mon_item.matrix[1][1] = ExpectedSigned(in_s)
          /\ mon_item.matrix[1][1] \in -32768..32767
    /\ \A k \in 1..Len(output_fifo) :
          /\ output_fifo[k].determinant = ExpectedSigned(det_s)
          /\ output_fifo[k].determinant \in -32768..32767

\* C26 witness: both monitors have converted the raw value 32768
C26_Witness ==
    /\ in_s = 32768
    /\ det_s = 32768
    /\ mon_idx = 1
    /\ mon_item.matrix[1][1] = -32768
    /\ Len(output_fifo) = 1
    /\ output_fifo[1].determinant = -32768

\* C28: the output monitor publishes one item per period of det_valid sampled
\* high, built from det and overflow at the first sampled edge of the period;
\* once it has run after an edge, the items published are exactly those of the
\* periods begun, however long a period lasts.
C28_OnePerValidPeriod ==
    /\ Len(output_fifo) <= Len(period_log)
    /\ Len(period_log) <= Len(output_fifo) + 1
    /\ "omon" \notin ready => Len(output_fifo) = Len(period_log)
    /\ \A k \in 1..Len(output_fifo) :
          /\ output_fifo[k].determinant = ExpectedSigned(period_log[k].det)
          /\ output_fifo[k].overflow = (period_log[k].overflow = 1)

\* C28 witness: in the second period det_valid is still high at a later edge,
\* with another value on det, and the monitor has run without publishing again
C28_Witness ==
    /\ ready = {}
    /\ omon_pc = "hold_clk"
    /\ Len(period_log) = 2
    /\ Len(output_fifo) = 2
    /\ det_valid_s = 1
    /\ det_s # period_log[2].det
    /\ output_fifo[2].determinant = ExpectedSigned(period_log[2].det)

ValueTotal(bins) ==
    CountIn(bins, "min") + CountIn(bins, "max") + CountIn(bins, "small")
    + CountIn(bins, "medium") + CountIn(bins, "large")

BinTotals ==
    [value |-> ValueTotal(matrix_value_bins),
     det |-> ValueTotal(determinant_value_bins),
     overflow |-> overflow_bins["true"] + overflow_bins["false"],
     delay |-> delay_bins["short"] + delay_bins["medium"] + delay_bins["long"],
     type |-> matrix_type_bins["triangular_upper"] + matrix_type_bins["triangular_lower"]
              + matrix_type_bins["diagonal"] + matrix_type_bins["identity"]
              + matrix_type_bins["general"]]

AllBins ==
    <<matrix_value_bins, determinant_value_bins, overflow_bins, delay_bins,
      matrix_type_bins>>

\* no key is lost and no count falls from bins b to bins c
NotLess(b, c) ==
    /\ DOMAIN b \subseteq DOMAIN c
    /\ \A k \in DOMAIN b : c[k] >= b[k]

\* C30: no step lowers a bin count or removes a bin; the bins change only in a
\* step of report_phase that takes an item from a FIFO, an input item adding
\* one to a delay bin and a type bin and nine to the element-value bins, an
\* output item one to a determinant bin and an overflow bin; a call of write()
\* and a publication before the report leave every bin as it is.
C30_BinsMonotone ==
    [][/\ \A n \in 1..5 : NotLess(AllBins[n], AllBins'[n])
       /\ (AllBins' # AllBins) =>
             \/ /\ cov_pc = "inputs"
                /\ cov_input_fifo # <<>>
                /\ cov_input_fifo' = Tail(cov_input_fifo)
                /\ BinTotals' = [BinTotals EXCEPT !.value = @ + 9, !.delay = @ + 1,
                                                  !.type = @ + 1]
             \/ /\ cov_pc = "outputs"
                /\ cov_output_fifo # <<>>
                /\ cov_output_fifo' = Tail(cov_output_fifo)
                /\ BinTotals' = [BinTotals EXCEPT !.det = @ + 1, !.overflow = @ + 1]
       /\ (\/ cov_writes' # cov_writes
           \/ Len(cov_input_fifo') > Len(cov_input_fifo)
           \/ Len(cov_output_fifo') > Len(cov_output_fifo)) => AllBins' = AllBins]_vars

\* C30 witness: after publications and a call of write() the report has
\* counted two input items and two output items in the same bins
C30_Witness ==
    /\ cov_pc = "done"
    /\ cov_writes > 0
    /\ matrix_type_bins["identity"] = 2
    /\ delay_bins["short"] = 2
    /\ overflow_bins["false"] = 2
    /\ CountIn(matrix_value_bins, "small") = 18
    /\ CountIn(determinant_value_bins, "small") = 2

\* C31: the delay of every item the output monitor has published is the
\* number of clock edges from the begin of the input transaction (the start of
\* its drive_matrix) to the edge at which det_valid was asserted, up to two
\* cycles for the way the edges at both ends are counted.
C31_DelayFromTransactionStart ==
    \A k \in 1..Len(output_fifo) :
        k <= Len(res_log) =>
            /\ output_fifo[k].pre_det_delay <= res_log[k] + 2
            /\ output_fifo[k].pre_det_delay >= res_log[k] - 2

\* C32: a publication of the input monitor leaves it waiting for a rising edge
\* of mat_request; while it waits it captures nothing and publishes nothing,
\* whatever is accepted on the bus; it leaves the wait only when mat_request
\* was 0 at the last clock edge and is 1 now, and then begins a new item at
\* its first element.
C32_WaitsForRequestRise ==
    [][/\ (input_fifo' # input_fifo) => mon_pc' = "req_rise"
       /\ mon_pc = "req_rise" =>
             /\ input_fifo' = input_fifo
             /\ mon_pc' = "req_rise" => (mon_item' = mon_item /\ mon_idx' = mon_idx)
             /\ mon_pc' # "req_rise" =>
                   /\ mat_request = 0
                   /\ dut_req = 1
                   /\ mon_pc' = "elem_clk"
                   /\ mon_idx' = 0
                   /\ mon_item' = MatrixItem(ZeroGrid, ZeroGrid)]_vars

\* C32 witness: the driver has completed two transactions with mat_request
\* high at the edge of the last element, and the monitor, which published the
\* first, still waits for a rising edge
C32_Witness ==
    /\ mon_pc = "req_rise"
    /\ Len(input_fifo) = 1
    /\ Len(done_log) = 2
    /\ mat_request = 1
    /\ ready = {}

\* the idle value the three settings of idle_data stand for
ExpectedIdle ==
    CASE idle_data = "HIGH_IMPEDANCE" -> 0
      [] idle_data = "ZERO" -> 0
      [] idle_data = "UNKNOWN" -> 43690

\* C33: in the step in which drive_matrix ends normally, and until the next
\* drive task is started, mat_valid is 0 and mat_in is the idle value of the
\* driver's idle_data.
C33_IdleAfterDrive ==
    (dt_pc = "done" /\ dt_result = "ok") =>
        (mat_valid = 0 /\ mat_in = ExpectedIdle)

\* C33 witness: drive_matrix has just ended normally with idle_data UNKNOWN
\* and the main loop is about to go on
C33_Witness ==
    /\ dt_pc = "done"
    /\ dt_result = "ok"
    /\ "drv" \in ready
    /\ drv_pc = "join"
    /\ idle_data = "UNKNOWN"
    /\ mat_in = 43690
    /\ mat_valid = 0

\* the tasks of the driver that write the bus
BusWriters == {"dt", "rw"}

\* the signals of the bus and the values the DUT showed at the last edge
BusSignals ==
    <<rst_n, mat_valid, mat_in, dut_req, mat_request, valid_s, in_s,
      det_valid_s, det_s, ovf_s>>

C35_MonitorSeesDrivenMatrix ==
    [][(/\ resets = 1
        /\ drv_pc = "join"
        /\ dt_result = "ok"
        /\ Len(done_log') = Len(done_log) + 1)
          => /\ Len(input_fifo) = Len(done_log')
             /\ input_fifo[Len(input_fifo)].matrix = drv_item.matrix]_vars

\* the monitor's conversion undoes the driver's mask on every signed value of
\* the bus width
RoundTripAll ==
    \A v \in MAT_UNDERFLOW_VALUE..MAT_OVERFLOW_VALUE : ToSigned(Mask16(v)) = v

\* C36: for every v in -2^15 .. 2^15 - 1 the monitor's sign conversion of
\* v & 0xFFFF is v, and every element the monitor captures from the bus is the
\* signed element the drive task has put there.
C36_RoundTrip ==
    [][/\ RoundTripAll
       /\ Captured =>
             Elem(mon_item'.matrix, mon_idx) = Elem(drv_item.matrix, dt_idx)]_vars

\* C36 witness: the element -2^15, driven as 32768, was captured as -2^15
C36_Witness ==
    /\ mon_idx >= 1
    /\ drv_item.matrix[1][1] = MAT_UNDERFLOW_VALUE
    /\ in_s = 32768
    /\ mon_item.matrix[1][1] = MAT_UNDERFLOW_VALUE
    /\ mon_pc = "elem_clk"

\* the unexpected-output errors logged so far
UnexpectedCount ==
    Cardinality({k \in 1..Len(sb_log) : sb_log[k] = UnexpectedOutput})

\* C37: check_phase compares no output while an input is still in the FIFO;
\* when it has ended, having drained m inputs and n outputs from an empty
\* expected_queue, the queue holds max(0, m - n) entries, min(m, n)
\* comparisons were made and max(0, n - m) unexpected-output errors logged.
C37_QueueConservation ==
    /\ out_hist # <<>> => input_fifo = <<>>
    /\ sb_pc = "done" =>
          LET m == Len(in_hist)
              n == Len(out_hist)
          IN  /\ input_fifo = <<>>
              /\ output_fifo = <<>>
              /\ Len(expected_queue) = Max2(0, m - n)
              /\ Len(cmp_hist) = Min2(m, n)
              /\ UnexpectedCount = Max2(0, n - m)

\* C37 witness: check_phase has ended with one input and two outputs: one
\* comparison, one unexpected output, the queue empty
C37_Witness ==
    /\ sb_pc = "done"
    /\ Len(in_hist) = 1
    /\ Len(out_hist) = 2
    /\ Len(cmp_hist) = 1
    /\ UnexpectedCount = 1
    /\ expected_queue = <<>>

\* the collected output items whose overflow flag is b
FlagCount(b) ==
    Cardinality({k \in 1..Len(cov_out_hist) : cov_out_hist[k].overflow = b})

\* C38: when report_phase has taken m input items and n output items from the
\* FIFOs, the matrix-type bins and the delay bins each sum to m, the
\* element-value bins to N^2 * m, the determinant bins and the overflow bins
\* each to n; the bin 'true' counts the items whose overflow flag is set and
\* 'false' the others; at the end both FIFOs are empty.
C38_BinTotals ==
    LET m == Len(cov_in_hist)
        n == Len(cov_out_hist)
    IN  /\ BinTotals = [value |-> NumElems * m, det |-> n, overflow |-> n,
                        delay |-> m, type |-> m]
        /\ overflow_bins["true"] = FlagCount(TRUE)
        /\ overflow_bins["false"] = FlagCount(FALSE)
        /\ cov_pc = "done" => (cov_input_fifo = <<>> /\ cov_output_fifo = <<>>)

\* C38 witness: report_phase has ended with two inputs and two outputs, one
\* of them with the overflow flag set
C38_Witness ==
    /\ cov_pc = "done"
    /\ Len(cov_in_hist) = 2
    /\ Len(cov_out_hist) = 2
    /\ overflow_bins = [true |-> 1, false |-> 1]
    /\ ValueTotal(matrix_value_bins) = 18
    /\ ValueTotal(determinant_value_bins) = 2

====
